---- MODULE Spec2Model ----
(***************************************************************************)
(* Model of src/security/rate_limiter.py: the RateLimiter orchestrator,    *)
(* its in-memory window store and the Redis-backed counter store.          *)
(*                                                                         *)
(* Time is in whole seconds.  A handler reads time.time() once as `now`;   *)
(* a RateLimitState created by a defaultdict during the handler reads the  *)
(* clock again (t).  burst_multiplier is the exact rational   *)
(* burst_num / burst_den (1.0 and 1.5 multiply exactly in binary floats).  *)
(* A user_id or session_id of None or "" is the empty string: both are     *)
(* falsy in the source's tests.  RateLimitState.concurrent is never read   *)
(* or written by the source and is left out.                               *)
(***************************************************************************)
EXTENDS Integers, FiniteSets, Sequences, TLC

VARIABLES
    config,                 \* RateLimiter.config (set once in __init__)
    clock,                  \* time.time()
    ticks,                  \* number of clock advances so far (bounds the run)
    user_minute_state,      \* RateLimiter._user_minute_state
    user_hour_state,        \* RateLimiter._user_hour_state
    global_minute_state,    \* RateLimiter._global_minute_state
    global_hour_state,      \* RateLimiter._global_hour_state
    concurrent_requests,    \* RateLimiter._concurrent_requests
    global_concurrent,      \* RateLimiter._global_concurrent
    backend,                \* RedisRateLimitBackend._initialized, ._client
    redis_up,               \* whether the Redis server answers commands
    redis_store,            \* the keys held by the Redis server
    pending,                \* per identifier, the decr_concurrent calls between DECR and SET
    pc,                     \* where each request-handling task stands
    release_lost,           \* a release's command did not reach the server
    lock,                   \* RateLimiter._lock: asyncio.Lock._locked, ._waiters
    solo,                   \* the windows and counters of a second limiter (a second run)
    last,                   \* the last call made and what it returned or raised
    args                    \* the arguments the last call was made with

memvars == <<user_minute_state, user_hour_state, global_minute_state,
             global_hour_state, concurrent_requests, global_concurrent>>
redisvars == <<backend, redis_up, redis_store, pending, release_lost>>
vars == <<config, clock, ticks, memvars, redisvars, lock, solo, pc, last, args>>

----------------------------------------------------------------------------
(* Bounds of the model *)

MaxTicks == 3
MaxCount == 3
MaxTokens == 4
MaxSlots == 2
MaxUserTicks == 2
MaxUserCount == 2
MaxBurstTicks == 1
MaxTaskTicks == 1
MaxOver == 1
NumTasks == 2
MaxPending == 2
MaxDrift == 1
MaxDriftTicks == 3
MaxScopeTicks == 1

(* Program constants *)

MinutePeriod == 60
HourPeriod == 3600
MinuteExpiry == 120
HourExpiry == 7200
ConcurrentRetry == 1
NoRetry == -1
MinuteTTL == 120
HourTTL == 7200
ConcurrentTTL == 300
NoExpiry == -1

TickSteps == {30, HourPeriod}
UserIds == {"u1", "u2"}
NoUser == ""
NoSession == ""
TokenAmounts == {0, 2}
LargeEstimates == {0, 4}

----------------------------------------------------------------------------
(* Dictionaries *)

Put(d, k, v) == [x \in DOMAIN d \cup {k} |-> IF x = k THEN v ELSE d[x]]
Del(d, ks) == [x \in DOMAIN d \ ks |-> d[x]]
EmptyDict == [x \in {} |-> 0]
Max(a, b) == IF a >= b THEN a ELSE b

RateLimitState(t) == [count |-> 0, tokens |-> 0, window_start |-> t]

Mem == [um |-> user_minute_state, uh |-> user_hour_state,
        gm |-> global_minute_state, gh |-> global_hour_state,
        cr |-> concurrent_requests, gc |-> global_concurrent]

SetMem(m) ==
    /\ user_minute_state' = m.um
    /\ user_hour_state' = m.uh
    /\ global_minute_state' = m.gm
    /\ global_hour_state' = m.gh
    /\ concurrent_requests' = m.cr
    /\ global_concurrent' = m.gc

\* a minute window created with window_start at the epoch
TouchMinuteEpoch(m, id, t) ==
    IF id \in DOMAIN m.um THEN m
    ELSE [m EXCEPT !.um = Put(m.um, id, RateLimitState(0))]

\* defaultdict(RateLimitState).__getitem__: a missing key is created, its
\* window_start read from the clock at that moment (t).
TouchMinute(m, id, t) ==
    IF id \in DOMAIN m.um THEN m
    ELSE [m EXCEPT !.um = Put(m.um, id, RateLimitState(t))]
TouchHour(m, id, t) ==
    IF id \in DOMAIN m.uh THEN m
    ELSE [m EXCEPT !.uh = Put(m.uh, id, RateLimitState(t))]
\* defaultdict(int).__getitem__
TouchConcurrent(m, id) ==
    IF id \in DOMAIN m.cr THEN m
    ELSE [m EXCEPT !.cr = Put(m.cr, id, 0)]

----------------------------------------------------------------------------
\* an identifier that falls back to the session before asking for the user
get_identifier_session_first(user_id, session_id) ==
    IF user_id # "" THEN [raised |-> FALSE, id |-> user_id]
    ELSE IF config.fallback_to_session /\ session_id # ""
         THEN [raised |-> FALSE, id |-> "session:" \o session_id]
    ELSE IF config.require_user_id THEN [raised |-> TRUE, id |-> ""]
    ELSE [raised |-> FALSE, id |-> "anonymous"]

(* RateLimiter._get_identifier *)

get_identifier(user_id, session_id) ==
    IF user_id # "" THEN [raised |-> FALSE, id |-> user_id]
    ELSE IF config.require_user_id THEN [raised |-> TRUE, id |-> ""]
    ELSE IF config.fallback_to_session /\ session_id # ""
         THEN [raised |-> FALSE, id |-> "session:" \o session_id]
    ELSE [raised |-> FALSE, id |-> "anonymous"]

\* a limit applied without the burst allowance
BurstForgotten(limit) == limit

(* int(limit * burst_multiplier) *)
Burst(limit) == (limit * config.burst_num) \div config.burst_den
max_requests == Burst(config.requests_per_minute)
max_tokens == Burst(config.tokens_per_minute)

Allowed(m) == [mem |-> m, outcome |-> "allow", retry_after |-> NoRetry]
Rejected(m, kind, retry) == [mem |-> m, outcome |-> kind, retry_after |-> retry]

\* a sweep that removes every window not started at the time of the sweep
cleanup_windows_eager(m, now) ==
    LET expired_minute == {k \in DOMAIN m.um : now - m.um[k].window_start > 0}
        expired_hour == {k \in DOMAIN m.uh : now - m.uh[k].window_start > 0}
        expired_concurrent == {k \in DOMAIN m.cr : m.cr[k] = 0}
    IN [m EXCEPT !.um = Del(m.um, expired_minute),
                 !.uh = Del(m.uh, expired_hour),
                 !.cr = Del(m.cr, expired_concurrent)]

(* RateLimiter._cleanup_windows *)
cleanup_windows(m, now) ==
    LET expired_minute == {k \in DOMAIN m.um : now - m.um[k].window_start > MinuteExpiry}
        expired_hour == {k \in DOMAIN m.uh : now - m.uh[k].window_start > HourExpiry}
        expired_concurrent == {k \in DOMAIN m.cr : m.cr[k] = 0}
    IN [m EXCEPT !.um = Del(m.um, expired_minute),
                 !.uh = Del(m.uh, expired_hour),
                 !.cr = Del(m.cr, expired_concurrent)]

\* a concurrency check that lets the counter reach the limit
check_concurrent_limit_strict(m, id) ==
    LET m1 == IF config.per_user THEN TouchConcurrent(m, id) ELSE m
        current == IF config.per_user THEN m1.cr[id] ELSE m1.gc
    IN IF current > config.max_concurrent_requests
       THEN Rejected(m1, "concurrent", ConcurrentRetry)
       ELSE Allowed(m1)

(* RateLimiter._check_concurrent_limit *)
check_concurrent_limit(m, id) ==
    LET m1 == IF config.per_user THEN TouchConcurrent(m, id) ELSE m
        current == IF config.per_user THEN m1.cr[id] ELSE m1.gc
    IN IF current >= config.max_concurrent_requests
       THEN Rejected(m1, "concurrent", ConcurrentRetry)
       ELSE Allowed(m1)

\* a rollover that fires as soon as any time has passed
RollMinuteEarly(st, now) ==
    IF now - st.window_start > 0
    THEN [st EXCEPT !.count = 0, !.window_start = now]
    ELSE st

(* RateLimiter._check_request_limit: the per-minute part, lines 422-441 *)
RollMinute(st, now) ==
    IF now - st.window_start >= MinutePeriod
    THEN [st EXCEPT !.count = 0, !.window_start = now]
    ELSE st

(* RateLimiter._check_request_limit: the per-hour part, lines 444-462 *)
RollHour(st, now) ==
    IF now - st.window_start >= HourPeriod
    THEN [st EXCEPT !.count = 0, !.window_start = now]
    ELSE st

\* a request check that still admits a window standing at its ceiling
check_request_limit_inclusive(m, id, now, t) ==
    LET m1 == IF config.per_user THEN TouchMinute(m, id, t) ELSE m
        ms == RollMinute(IF config.per_user THEN m1.um[id] ELSE m1.gm, now)
        m2 == IF config.per_user THEN [m1 EXCEPT !.um[id] = ms]
                                 ELSE [m1 EXCEPT !.gm = ms]
        m3 == IF config.per_user THEN TouchHour(m2, id, t) ELSE m2
        hs == RollHour(IF config.per_user THEN m3.uh[id] ELSE m3.gh, now)
        m4 == IF config.per_user THEN [m3 EXCEPT !.uh[id] = hs]
                                 ELSE [m3 EXCEPT !.gh = hs]
    IN IF ms.count > max_requests
       THEN Rejected(m2, "requests_per_minute",
                     Max(0, MinutePeriod - (now - ms.window_start)))
       ELSE IF hs.count > config.requests_per_hour
       THEN Rejected(m4, "requests_per_hour",
                     Max(0, HourPeriod - (now - hs.window_start)))
       ELSE Allowed(m4)

check_request_limit(m, id, now, t) ==
    LET m1 == IF config.per_user THEN TouchMinute(m, id, t) ELSE m
        ms == RollMinute(IF config.per_user THEN m1.um[id] ELSE m1.gm, now)
        m2 == IF config.per_user THEN [m1 EXCEPT !.um[id] = ms]
                                 ELSE [m1 EXCEPT !.gm = ms]
        m3 == IF config.per_user THEN TouchHour(m2, id, t) ELSE m2
        hs == RollHour(IF config.per_user THEN m3.uh[id] ELSE m3.gh, now)
        m4 == IF config.per_user THEN [m3 EXCEPT !.uh[id] = hs]
                                 ELSE [m3 EXCEPT !.gh = hs]
    IN IF ms.count >= max_requests
       THEN Rejected(m2, "requests_per_minute",
                     Max(0, MinutePeriod - (now - ms.window_start)))
       ELSE IF hs.count >= config.requests_per_hour
       THEN Rejected(m4, "requests_per_hour",
                     Max(0, HourPeriod - (now - hs.window_start)))
       ELSE Allowed(m4)

\* a token check that books the estimate on the window it admits
check_token_limit_booking(m, id, tokens, now, t) ==
    LET m1 == IF config.per_user THEN TouchMinute(m, id, t) ELSE m
        ms == IF config.per_user THEN m1.um[id] ELSE m1.gm
    IN IF ms.tokens + tokens > max_tokens
       THEN [mem |-> m1, outcome |-> "tokens_per_minute",
             retry_after |-> Max(0, MinutePeriod - (now - ms.window_start))]
       ELSE [mem |-> IF config.per_user THEN [m1 EXCEPT !.um[id].tokens = @ + tokens]
                                        ELSE [m1 EXCEPT !.gm.tokens = @ + tokens],
             outcome |-> "allow", retry_after |-> NoRetry]

(* RateLimiter._check_token_limit *)
check_token_limit(m, id, tokens, now, t) ==
    LET m1 == IF config.per_user THEN TouchMinute(m, id, t) ELSE m
        ms == IF config.per_user THEN m1.um[id] ELSE m1.gm
    IN IF ms.tokens + tokens > max_tokens
       THEN Rejected(m1, "tokens_per_minute",
                     Max(0, MinutePeriod - (now - ms.window_start)))
       ELSE Allowed(m1)

\* a check that looks at the token budget before the request windows
check_limit_memory_tokens_first(m, id, estimated_tokens, now, t) ==
    LET r1 == check_concurrent_limit(cleanup_windows(m, now), id)
        r2 == check_token_limit(r1.mem, id, estimated_tokens, now, t)
        r3 == check_request_limit(IF estimated_tokens > 0 THEN r2.mem ELSE r1.mem,
                                  id, now, t)
    IN IF r1.outcome # "allow" THEN r1
       ELSE IF estimated_tokens > 0 /\ r2.outcome # "allow" THEN r2
       ELSE r3

(* RateLimiter._check_limit_memory *)
check_limit_memory(m, id, estimated_tokens, now, t) ==
    LET r1 == check_concurrent_limit(cleanup_windows(m, now), id)
        r2 == check_request_limit(r1.mem, id, now, t)
        r3 == check_token_limit(r2.mem, id, estimated_tokens, now, t)
    IN IF r1.outcome # "allow" THEN r1
       ELSE IF r2.outcome # "allow" THEN r2
       ELSE IF estimated_tokens > 0 THEN r3
       ELSE r2

(* RateLimiter.record_request, the in-memory branch (lines 516-525) *)
record_memory(m, id, tokens_used, t) ==
    LET m1 == IF config.per_user THEN TouchMinute(m, id, t) ELSE m
        m2 == IF config.per_user
              THEN [m1 EXCEPT !.um[id].count = @ + 1, !.um[id].tokens = @ + tokens_used]
              ELSE [m1 EXCEPT !.gm.count = @ + 1, !.gm.tokens = @ + tokens_used]
        m3 == IF config.per_user THEN TouchHour(m2, id, t) ELSE m2
    IN IF config.per_user
       THEN [m3 EXCEPT !.uh[id].count = @ + 1, !.uh[id].tokens = @ + tokens_used]
       ELSE [m3 EXCEPT !.gh.count = @ + 1, !.gh.tokens = @ + tokens_used]

(* RateLimiter.acquire_concurrent_slot, the in-memory branch (lines 547-551) *)
acquire_memory(m, id) ==
    IF config.per_user
    THEN [TouchConcurrent(m, id) EXCEPT !.cr[id] = @ + 1]
    ELSE [m EXCEPT !.gc = @ + 1]

\* a release that forgets the decrement
release_memory_forgotten(m, id) == m

(* RateLimiter.release_concurrent_slot, the in-memory branch (lines 567-571) *)
release_memory(m, id) ==
    IF config.per_user
    THEN [TouchConcurrent(m, id) EXCEPT !.cr[id] = Max(0, @ - 1)]
    ELSE [m EXCEPT !.gc = Max(0, @ - 1)]

\* a reset that clears every identifier whichever one is named
reset_memory_everyone(m, user_id, t) ==
    [um |-> EmptyDict, uh |-> EmptyDict,
     gm |-> RateLimitState(t), gh |-> RateLimitState(t),
     cr |-> EmptyDict, gc |-> 0]

(* RateLimiter.reset *)
reset_memory(m, user_id, t) ==
    IF user_id # ""
    THEN [m EXCEPT !.um = Del(m.um, {user_id}),
                   !.uh = Del(m.uh, {user_id}),
                   !.cr = Del(m.cr, {user_id})]
    ELSE [um |-> EmptyDict, uh |-> EmptyDict,
          gm |-> RateLimitState(t), gh |-> RateLimitState(t),
          cr |-> EmptyDict, gc |-> 0]

\* a usage report read through the defaultdicts' __getitem__
get_usage_touching(m, user_id, t) ==
    LET identifier == IF user_id # "" THEN user_id ELSE "global"
        m1 == TouchConcurrent(TouchHour(TouchMinute(m, identifier, t), identifier, t),
                              identifier)
        dimension(used, limit) ==
            [used |-> used, limit |-> limit, remaining |-> Max(0, limit - used)]
    IN [mem |-> m1,
        report |->
          [requests_minute |-> dimension(m1.um[identifier].count,
                                         config.requests_per_minute),
           requests_hour |-> dimension(m1.uh[identifier].count,
                                       config.requests_per_hour),
           tokens_minute |-> dimension(m1.um[identifier].tokens,
                                       config.tokens_per_minute),
           concurrent |-> [used |-> m1.cr[identifier],
                           limit |-> config.max_concurrent_requests]]]

(* RateLimiter.get_usage: the stores after the call, and the report *)
get_usage(m, user_id, t) ==
    LET identifier == IF user_id # "" THEN user_id ELSE "global"
        minute_state == IF identifier \in DOMAIN m.um THEN m.um[identifier]
                        ELSE RateLimitState(t)
        hour_state == IF identifier \in DOMAIN m.uh THEN m.uh[identifier]
                      ELSE RateLimitState(t)
        dimension(used, limit) ==
            [used |-> used, limit |-> limit, remaining |-> Max(0, limit - used)]
    IN [mem |-> m,
        report |->
          [requests_minute |-> dimension(minute_state.count, config.requests_per_minute),
           requests_hour |-> dimension(hour_state.count, config.requests_per_hour),
           tokens_minute |-> dimension(minute_state.tokens, config.tokens_per_minute),
           concurrent |-> [used |-> IF identifier \in DOMAIN m.cr THEN m.cr[identifier]
                                    ELSE 0,
                           limit |-> config.max_concurrent_requests]]]

----------------------------------------------------------------------------
(* What a caller can observe of an identifier's counters: a missing entry  *)
(* reads as zero (dict.get(identifier, RateLimitState()), defaultdict).    *)

MinuteOf(m, id) == IF config.per_user
                   THEN (IF id \in DOMAIN m.um THEN m.um[id] ELSE RateLimitState(-1))
                   ELSE m.gm
HourOf(m, id) == IF config.per_user
                 THEN (IF id \in DOMAIN m.uh THEN m.uh[id] ELSE RateLimitState(-1))
                 ELSE m.gh
ConcurrentOf(m, id) == IF config.per_user
                       THEN (IF id \in DOMAIN m.cr THEN m.cr[id] ELSE 0)
                       ELSE m.gc

----------------------------------------------------------------------------
(* RedisRateLimitBackend.  A key is <<identifier, window>>; the server     *)
(* holds [value, expire_at] per key, expire_at = NoExpiry when the key has *)
(* no TTL.  A command reaches the server exactly when redis_up; otherwise  *)
(* the client raises (connection refused, timeout).                        *)

make_key(identifier, window) == <<identifier, window>>
minute_window(now) == <<"minute", now \div 60>>
hour_window(now) == <<"hour", now \div 3600>>
concurrent_window == <<"concurrent", 0>>

StoreGet(store, key) == IF key \in DOMAIN store THEN store[key].value ELSE 0
\* pipeline: INCRBY key amount; EXPIRE key ttl
StoreIncr(store, key, amount, ttl, now) ==
    Put(store, key, [value |-> StoreGet(store, key) + amount, expire_at |-> now + ttl])
\* DECR key: the TTL of the key, if any, is kept
StoreDecr(store, key) ==
    Put(store, key, [value |-> StoreGet(store, key) - 1,
                     expire_at |-> IF key \in DOMAIN store THEN store[key].expire_at
                                   ELSE NoExpiry])
\* SET key 0: the TTL of the key is dropped
StoreSet(store, key, v) == Put(store, key, [value |-> v, expire_at |-> NoExpiry])
\* the time every key has left to live, `step` seconds later
StoreAge(store, step) ==
    [k \in DOMAIN store |->
        [store[k] EXCEPT !.expire_at = IF @ = NoExpiry THEN @ ELSE @ - step]]
\* the server drops the keys whose TTL has run out
StoreExpire(store, now) ==
    Del(store, {k \in DOMAIN store :
                  store[k].expire_at # NoExpiry /\ store[k].expire_at <= now})

(* RedisRateLimitBackend._ensure_connected *)
ensure_connected(b) ==
    IF b.initialized THEN [backend |-> b, ok |-> b.client]
    ELSE IF redis_up
    THEN [backend |-> [initialized |-> TRUE, client |-> TRUE], ok |-> TRUE]
    ELSE [backend |-> [initialized |-> TRUE, client |-> FALSE], ok |-> FALSE]

\* what a backend operation hands back: the value it returns, whether it
\* returned the failure sentinel, and whether an exception left it
Reply(b, store, value) ==
    [backend |-> b, store |-> store, value |-> value, failed |-> FALSE, raised |-> FALSE]
Sentinel(b, store) ==
    [backend |-> b, store |-> store, value |-> 0, failed |-> TRUE, raised |-> FALSE]
Raise(b, store) ==
    [backend |-> b, store |-> store, value |-> 0, failed |-> TRUE, raised |-> TRUE]

\* get_count without its try/except
get_count_unguarded(b, store, identifier, window) ==
    LET c == ensure_connected(b) IN
    IF ~c.ok THEN Sentinel(c.backend, store)
    ELSE IF ~redis_up THEN Raise(c.backend, store)
    ELSE Reply(c.backend, store, StoreGet(store, make_key(identifier, window)))

(* RedisRateLimitBackend.get_count *)
get_count(b, store, identifier, window) ==
    LET c == ensure_connected(b) IN
    IF ~c.ok THEN Sentinel(c.backend, store)
    ELSE IF ~redis_up THEN Sentinel(c.backend, store)
    ELSE Reply(c.backend, store, StoreGet(store, make_key(identifier, window)))

(* RedisRateLimitBackend.increment *)
increment(b, store, identifier, window, ttl, amount, now) ==
    LET c == ensure_connected(b)
        key == make_key(identifier, window)
    IN IF ~c.ok THEN Sentinel(c.backend, store)
       ELSE IF ~redis_up THEN Sentinel(c.backend, store)
       ELSE Reply(c.backend, StoreIncr(store, key, amount, ttl, now),
                  StoreGet(store, key) + amount)

(* RedisRateLimitBackend.get_concurrent *)
get_concurrent(b, store, identifier) ==
    LET c == ensure_connected(b) IN
    IF ~c.ok THEN Sentinel(c.backend, store)
    ELSE IF ~redis_up THEN Sentinel(c.backend, store)
    ELSE Reply(c.backend, store, StoreGet(store, make_key(identifier, concurrent_window)))

(* RedisRateLimitBackend.incr_concurrent *)
incr_concurrent(b, store, identifier, now) ==
    LET c == ensure_connected(b)
        key == make_key(identifier, concurrent_window)
    IN IF ~c.ok THEN Sentinel(c.backend, store)
       ELSE IF ~redis_up THEN Sentinel(c.backend, store)
       ELSE Reply(c.backend, StoreIncr(store, key, 1, ConcurrentTTL, now),
                  StoreGet(store, key) + 1)

(* RedisRateLimitBackend.decr_concurrent up to the DECR (lines 197-202) *)
decr_concurrent(b, store, identifier) ==
    LET c == ensure_connected(b)
        key == make_key(identifier, concurrent_window)
    IN IF ~c.ok THEN Sentinel(c.backend, store)
       ELSE IF ~redis_up THEN Sentinel(c.backend, store)
       ELSE Reply(c.backend, StoreDecr(store, key), StoreGet(store, key) - 1)

(* RedisRateLimitBackend.decr_concurrent from the test of the count on     *)
(* (lines 204-209): the SET that follows a DECR below zero                 *)
decr_concurrent_set(b, store, identifier) ==
    IF ~redis_up THEN Sentinel(b, store)
    ELSE Reply(b, StoreSet(store, make_key(identifier, concurrent_window), 0), 0)

(* RateLimiter._check_limit_redis *)
check_limit_redis(b, store, identifier, estimated_tokens, now) ==
    LET c1 == get_concurrent(b, store, identifier)
        c2 == get_count(c1.backend, store, identifier, minute_window(now))
        c3 == get_count(c2.backend, store, identifier, hour_window(now))
        verdict(bk, outcome, retry, calls) ==
            [backend |-> bk, outcome |-> outcome, retry_after |-> retry,
             failed |-> \E x \in calls : x.failed]
    IN IF c1.raised THEN verdict(c1.backend, "error", NoRetry, {c1})
       ELSE IF c1.value >= config.max_concurrent_requests
       THEN verdict(c1.backend, "concurrent", ConcurrentRetry, {c1})
       ELSE IF c2.raised THEN verdict(c2.backend, "error", NoRetry, {c1, c2})
       ELSE IF c2.value >= max_requests
       THEN verdict(c2.backend, "requests_per_minute", 60 - (now % 60), {c1, c2})
       ELSE IF c3.raised THEN verdict(c3.backend, "error", NoRetry, {c1, c2, c3})
       ELSE IF c3.value >= config.requests_per_hour
       THEN verdict(c3.backend, "requests_per_hour", 3600 - (now % 3600), {c1, c2, c3})
       ELSE verdict(c3.backend, "allow", NoRetry, {c1, c2, c3})

(* RateLimiter.record_request, the Redis branch (lines 509-514) *)
record_redis(b, store, identifier, now) ==
    LET i1 == increment(b, store, identifier, minute_window(now), MinuteTTL, 1, now)
        i2 == increment(i1.backend, i1.store, identifier, hour_window(now), HourTTL, 1, now)
    IN IF i1.raised THEN i1
       ELSE [i2 EXCEPT !.failed = i1.failed \/ i2.failed]

----------------------------------------------------------------------------
(* The calls *)

Call(op, id, outcome, retry, failed) ==
    [op |-> op, id |-> id, outcome |-> outcome, retry_after |-> retry,
     failed |-> failed]

Outcome(r) == IF r.raised THEN "error" ELSE "allow"

Args(user_id, session_id, tokens) ==
    [user_id |-> user_id, session_id |-> session_id, tokens |-> tokens]
NoArgs == Args("", "", 0)

Distributed == config.use_redis

\* a limiter that is on whatever its configuration says
EnabledAlways == TRUE

(* RateLimiter._enabled, set from config.enabled in __init__ *)
Enabled == config.enabled

(* RateLimiter.check_limit; d is how far the clock moves before a          *)
(* RateLimitState created by the call reads it                             *)
CheckLimit(user_id, session_id, estimated_tokens, d) ==
    LET ident == get_identifier(user_id, session_id) IN
    /\ UNCHANGED <<config, lock, solo, ticks, redis_up, redis_store, pending, release_lost>>
    /\ args' = Args(user_id, session_id, estimated_tokens)
    /\ IF ~Enabled
       THEN /\ last' = Call("check", "", "allow", NoRetry, FALSE)
            /\ UNCHANGED <<clock, memvars, backend>>
       ELSE IF ident.raised
       THEN /\ last' = Call("check", "", "authentication", NoRetry, FALSE)
            /\ UNCHANGED <<clock, memvars, backend>>
       ELSE IF Distributed
       THEN LET r == check_limit_redis(backend, redis_store, ident.id,
                                       estimated_tokens, clock)
            IN /\ backend' = r.backend
               /\ last' = Call("check", ident.id, r.outcome, r.retry_after, r.failed)
               /\ UNCHANGED <<clock, memvars>>
       ELSE LET r == check_limit_memory(Mem, ident.id, estimated_tokens, clock, clock + d)
            IN /\ SetMem(r.mem)
               /\ clock' = clock + d
               /\ last' = Call("check", ident.id, r.outcome, r.retry_after, FALSE)
               /\ UNCHANGED backend

(* RateLimiter.record_request *)
RecordRequest(user_id, session_id, tokens_used, d) ==
    LET ident == get_identifier(user_id, session_id) IN
    /\ UNCHANGED <<config, lock, solo, ticks, redis_up, pending, release_lost>>
    /\ args' = Args(user_id, session_id, tokens_used)
    /\ IF ~Enabled
       THEN /\ last' = Call("record", "", "allow", NoRetry, FALSE)
            /\ UNCHANGED <<clock, memvars, backend, redis_store>>
       ELSE IF ident.raised
       THEN /\ last' = Call("record", "", "authentication", NoRetry, FALSE)
            /\ UNCHANGED <<clock, memvars, backend, redis_store>>
       ELSE IF Distributed
       THEN LET r == record_redis(backend, redis_store, ident.id, clock)
            IN /\ backend' = r.backend
               /\ redis_store' = r.store
               /\ last' = Call("record", ident.id, Outcome(r), NoRetry, r.failed)
               /\ UNCHANGED <<clock, memvars>>
       ELSE /\ SetMem(record_memory(Mem, ident.id, tokens_used, clock + d))
            /\ clock' = clock + d
            /\ last' = Call("record", ident.id, "allow", NoRetry, FALSE)
            /\ UNCHANGED <<backend, redis_store>>

(* RateLimiter.acquire_concurrent_slot *)
AcquireSlot(user_id, session_id) ==
    LET ident == get_identifier(user_id, session_id) IN
    /\ UNCHANGED <<config, lock, solo, ticks, clock, redis_up, pending, release_lost>>
    /\ args' = Args(user_id, session_id, 0)
    /\ IF ~Enabled
       THEN /\ last' = Call("acquire", "", "allow", NoRetry, FALSE)
            /\ UNCHANGED <<memvars, backend, redis_store>>
       ELSE IF ident.raised
       THEN /\ last' = Call("acquire", "", "authentication", NoRetry, FALSE)
            /\ UNCHANGED <<memvars, backend, redis_store>>
       ELSE IF Distributed
       THEN LET r == incr_concurrent(backend, redis_store, ident.id, clock)
            IN /\ backend' = r.backend
               /\ redis_store' = r.store
               /\ last' = Call("acquire", ident.id, Outcome(r), NoRetry, r.failed)
               /\ UNCHANGED memvars
       ELSE /\ SetMem(acquire_memory(Mem, ident.id))
            /\ last' = Call("acquire", ident.id, "allow", NoRetry, FALSE)
            /\ UNCHANGED <<backend, redis_store>>

PendingOf(id) == IF id \in DOMAIN pending THEN pending[id] ELSE 0

(* RateLimiter.release_concurrent_slot.  With the Redis backend the call   *)
(* runs up to the DECR; when the DECR returns a count below zero the call  *)
(* goes on in ReleaseSet.                                                  *)
ReleaseSlot(user_id, session_id) ==
    LET ident == get_identifier(user_id, session_id) IN
    /\ UNCHANGED <<config, lock, solo, ticks, clock, redis_up>>
    /\ args' = Args(user_id, session_id, 0)
    /\ IF ~Enabled
       THEN /\ last' = Call("release", "", "allow", NoRetry, FALSE)
            /\ UNCHANGED <<memvars, backend, redis_store, pending, release_lost>>
       ELSE IF ident.raised
       THEN /\ last' = Call("release", "", "authentication", NoRetry, FALSE)
            /\ UNCHANGED <<memvars, backend, redis_store, pending, release_lost>>
       ELSE IF Distributed
       THEN LET r == decr_concurrent(backend, redis_store, ident.id)
            IN /\ backend' = r.backend
               /\ redis_store' = r.store
               /\ pending' = IF ~r.failed /\ r.value < 0
                             THEN Put(pending, ident.id, PendingOf(ident.id) + 1)
                             ELSE pending
               /\ release_lost' = (release_lost \/ r.failed)
               /\ last' = Call("release", ident.id, Outcome(r), NoRetry, r.failed)
               /\ UNCHANGED memvars
       ELSE /\ SetMem(release_memory(Mem, ident.id))
            /\ last' = Call("release", ident.id, "allow", NoRetry, FALSE)
            /\ UNCHANGED <<backend, redis_store, pending, release_lost>>

(* RedisRateLimitBackend.decr_concurrent, lines 204-206: the SET of a      *)
(* release whose DECR returned a count below zero                          *)
ReleaseSet(id) ==
    /\ PendingOf(id) > 0
    /\ LET r == decr_concurrent_set(backend, redis_store, id)
       IN /\ redis_store' = r.store
          /\ release_lost' = (release_lost \/ r.failed)
          /\ last' = Call("release_set", id, Outcome(r), NoRetry, r.failed)
    /\ args' = NoArgs
    /\ pending' = IF PendingOf(id) = 1 THEN Del(pending, {id})
                   ELSE Put(pending, id, PendingOf(id) - 1)
    /\ UNCHANGED <<config, lock, solo, ticks, clock, memvars, backend, redis_up>>

(* RateLimiter.get_usage; the report is kept with the call *)
GetUsage(user_id) ==
    LET r == get_usage(Mem, user_id, clock)
    IN /\ SetMem(r.mem)
       /\ last' = [op |-> "usage", id |-> IF user_id # "" THEN user_id ELSE "global",
                   outcome |-> "allow", retry_after |-> NoRetry, failed |-> FALSE,
                   usage |-> r.report]
       /\ args' = Args(user_id, "", 0)
       /\ UNCHANGED <<config, lock, solo, clock, ticks, redisvars>>

(* RateLimiter.close, which closes the Redis backend when there is one     *)
(* (RedisRateLimitBackend.close): a client that exists is closed and       *)
(* dropped; _initialized is left as it is                                  *)
Close ==
    /\ backend' = IF Distributed /\ backend.client
                  THEN [backend EXCEPT !.client = FALSE]
                  ELSE backend
    /\ last' = Call("close", "", "allow", NoRetry, FALSE)
    /\ args' = NoArgs
    /\ UNCHANGED <<config, lock, solo, clock, ticks, memvars, redis_up, redis_store,
                   pending, release_lost>>

(* RateLimiter.reset *)
Reset(user_id, d) ==
    /\ UNCHANGED <<config, lock, solo, ticks, redisvars>>
    /\ SetMem(reset_memory(Mem, user_id, clock + d))
    /\ clock' = IF user_id = "" THEN clock + d ELSE clock
    /\ last' = Call("reset", user_id, "allow", NoRetry, FALSE)
    /\ args' = Args(user_id, "", 0)

(* time passes; the Redis server drops the keys whose TTL ran out *)
Advance(step) ==
    /\ clock' = clock + step
    /\ ticks' = ticks + 1
    /\ redis_store' = StoreExpire(redis_store, clock + step)
    /\ last' = Call("tick", "", "allow", NoRetry, FALSE)
    /\ args' = NoArgs
    /\ UNCHANGED <<config, lock, solo, memvars, backend, redis_up, pending, release_lost>>

(* the Redis server stops answering, and answers again *)
RedisDown ==
    /\ redis_up
    /\ redis_up' = FALSE
    /\ last' = Call("down", "", "allow", NoRetry, FALSE)
    /\ args' = NoArgs
    /\ UNCHANGED <<config, lock, solo, clock, ticks, memvars, backend, redis_store, pending,
                   release_lost, pc>>
RedisUp ==
    /\ ~redis_up
    /\ redis_up' = TRUE
    /\ last' = Call("up", "", "allow", NoRetry, FALSE)
    /\ args' = NoArgs
    /\ UNCHANGED <<config, lock, solo, clock, ticks, memvars, backend, redis_store, pending,
                   release_lost, pc>>

\* the bounds on what a caller records and acquires
CanRecord(id, tokens_used, cap) ==
    IF Distributed
    THEN /\ StoreGet(redis_store, make_key(id, minute_window(clock))) < cap
         /\ StoreGet(redis_store, make_key(id, hour_window(clock))) < cap
    ELSE /\ MinuteOf(Mem, id).count < cap
         /\ HourOf(Mem, id).count < cap
         /\ MinuteOf(Mem, id).tokens + tokens_used <= MaxTokens
         /\ HourOf(Mem, id).tokens + tokens_used <= MaxTokens
CanAcquire(id) ==
    IF Distributed
    THEN StoreGet(redis_store, make_key(id, concurrent_window)) < MaxSlots
    ELSE ConcurrentOf(Mem, id) < MaxSlots
CanRelease(id) ==
    /\ PendingOf(id) < MaxPending
    /\ Distributed => StoreGet(redis_store, make_key(id, concurrent_window)) > -MaxSlots

----------------------------------------------------------------------------
(* Configurations *)

Config(per_user, use_redis) ==
    [enabled |-> TRUE, requests_per_minute |-> 2, requests_per_hour |-> 3,
     tokens_per_minute |-> 2, max_concurrent_requests |-> 1,
     per_user |-> per_user, burst_num |-> 3, burst_den |-> 2,
     use_redis |-> use_redis, require_user_id |-> FALSE,
     fallback_to_session |-> TRUE]

\* RateLimitConfig's defaults but for requests_per_minute and burst_multiplier
BurstConfig(requests_per_minute, burst_num, burst_den) ==
    [enabled |-> TRUE, requests_per_minute |-> requests_per_minute,
     requests_per_hour |-> 1000, tokens_per_minute |-> 100000,
     max_concurrent_requests |-> 10, per_user |-> TRUE,
     burst_num |-> burst_num, burst_den |-> burst_den,
     use_redis |-> FALSE, require_user_id |-> FALSE,
     fallback_to_session |-> TRUE]

(* RateLimiter.__init__ *)
InitState ==
    /\ clock = 0
    /\ ticks = 0
    /\ user_minute_state = EmptyDict
    /\ user_hour_state = EmptyDict
    /\ global_minute_state = RateLimitState(0)
    /\ global_hour_state = RateLimitState(0)
    /\ concurrent_requests = EmptyDict
    /\ global_concurrent = 0
    /\ backend = [initialized |-> FALSE, client |-> FALSE]
    /\ redis_up = TRUE
    /\ redis_store = EmptyDict
    /\ pending = EmptyDict
    /\ release_lost = FALSE
    /\ lock = [locked |-> FALSE, waiters |-> << >>]
    /\ solo = Mem
    /\ pc = [t \in 1..NumTasks |-> "idle"]
    /\ last = Call("init", "", "allow", NoRetry, FALSE)
    /\ args = NoArgs

----------------------------------------------------------------------------
(* Spec: the limiter with the in-memory backend and one caller, "u1", who  *)
(* makes any call at any time.                                             *)

Init ==
    /\ config \in {Config(p, FALSE) : p \in BOOLEAN}
    /\ InitState

ApiCheck == \E e \in TokenAmounts : CheckLimit("u1", NoSession, e, 0) /\ UNCHANGED pc
ApiRecord ==
    \E k \in TokenAmounts :
        /\ CanRecord("u1", k, MaxCount)
        /\ RecordRequest("u1", NoSession, k, 0)
        /\ UNCHANGED pc
ApiAcquire == CanAcquire("u1") /\ AcquireSlot("u1", NoSession) /\ UNCHANGED pc
ApiRelease == ReleaseSlot("u1", NoSession) /\ UNCHANGED pc
ApiReset == \E u \in {"u1", NoUser} : Reset(u, 0) /\ UNCHANGED pc
Tick == ticks < MaxTicks /\ (\E d \in TickSteps : Advance(d)) /\ UNCHANGED pc

Next == ApiCheck \/ ApiRecord \/ ApiAcquire \/ ApiRelease \/ ApiReset \/ Tick

Spec == Init /\ [][Next]_vars

----------------------------------------------------------------------------
(* SpecUsers: the in-memory backend with two callers, "u1" and "u2".       *)

UsersCheck == \E u \in UserIds : CheckLimit(u, NoSession, 0, 0) /\ UNCHANGED pc
UsersRecord ==
    \E u \in UserIds :
        /\ CanRecord(u, 0, MaxUserCount)
        /\ RecordRequest(u, NoSession, 0, 0)
        /\ UNCHANGED pc
UsersAcquire == \E u \in UserIds : CanAcquire(u) /\ AcquireSlot(u, NoSession) /\ UNCHANGED pc
UsersRelease == \E u \in UserIds : ReleaseSlot(u, NoSession) /\ UNCHANGED pc
UsersReset == \E u \in UserIds \cup {NoUser} : Reset(u, 0) /\ UNCHANGED pc
UsersTick == ticks < MaxUserTicks /\ (\E d \in TickSteps : Advance(d)) /\ UNCHANGED pc

NextUsers ==
    UsersCheck \/ UsersRecord \/ UsersAcquire \/ UsersRelease \/ UsersReset \/ UsersTick

SpecUsers == Init /\ [][NextUsers]_vars

----------------------------------------------------------------------------
(* SpecBurst: one caller checks and records against the default limits     *)
(* with requests_per_minute = 60, burst_multiplier = 1.5, and with         *)
(* requests_per_minute = 2, burst_multiplier = 1.0.                        *)

InitBurst ==
    /\ config \in {BurstConfig(60, 3, 2), BurstConfig(2, 1, 1)}
    /\ InitState

BurstCheck == CheckLimit("u1", NoSession, 0, 0) /\ UNCHANGED pc
BurstRecord ==
    /\ CanRecord("u1", 0, max_requests + MaxOver)
    /\ RecordRequest("u1", NoSession, 0, 0)
    /\ UNCHANGED pc
BurstTick == ticks < MaxBurstTicks /\ Advance(MinutePeriod) /\ UNCHANGED pc

NextBurst == BurstCheck \/ BurstRecord \/ BurstTick

SpecBurst == InitBurst /\ [][NextBurst]_vars

----------------------------------------------------------------------------
(* SpecRedis: the limiter with the Redis backend, one caller, and a server *)
(* that may stop answering at any time.                                    *)

InitRedis ==
    /\ config = Config(TRUE, TRUE)
    /\ InitState

RedisCheck == CheckLimit("u1", NoSession, 0, 0) /\ UNCHANGED pc
RedisRecord ==
    /\ CanRecord("u1", 0, MaxCount)
    /\ RecordRequest("u1", NoSession, 0, 0)
    /\ UNCHANGED pc
RedisAcquire == CanAcquire("u1") /\ AcquireSlot("u1", NoSession) /\ UNCHANGED pc
RedisRelease == CanRelease("u1") /\ ReleaseSlot("u1", NoSession) /\ UNCHANGED pc
RedisReleaseSet == ReleaseSet("u1") /\ UNCHANGED pc
RedisTick == ticks < MaxTicks /\ (\E d \in TickSteps : Advance(d)) /\ UNCHANGED pc

NextRedis ==
    \/ RedisCheck \/ RedisRecord \/ RedisAcquire \/ RedisRelease \/ RedisReleaseSet
    \/ RedisTick \/ RedisDown \/ RedisUp

SpecRedis == InitRedis /\ [][NextRedis]_vars

----------------------------------------------------------------------------
(* SpecTasks: concurrent request-handling tasks of one caller.  Each task  *)
(* checks, and when admitted either records the request, or acquires a     *)
(* slot, runs the protected operation (which may fail) and releases the    *)
(* slot; a release whose DECR returned a count below zero is "releasing"   *)
(* until its SET.  The backend is in-memory or Redis.                      *)

Tasks == 1..NumTasks

InitTasks ==
    /\ config \in {Config(TRUE, FALSE), Config(FALSE, FALSE), Config(TRUE, TRUE)}
    /\ InitState

TaskCheck ==
    \E t \in Tasks :
        /\ pc[t] = "idle"
        /\ CheckLimit("u1", NoSession, 0, 0)
        /\ pc' = [pc EXCEPT ![t] = IF last'.outcome = "allow" THEN "admitted" ELSE "idle"]
TaskRecord ==
    \E t \in Tasks :
        /\ pc[t] = "admitted"
        /\ CanRecord("u1", 0, max_requests + MaxOver)
        /\ RecordRequest("u1", NoSession, 0, 0)
        /\ pc' = [pc EXCEPT ![t] = "idle"]
TaskAcquire ==
    \E t \in Tasks :
        /\ pc[t] = "admitted"
        /\ CanAcquire("u1")
        /\ AcquireSlot("u1", NoSession)
        /\ pc' = [pc EXCEPT ![t] = "running"]
TaskFail ==
    \E t \in Tasks :
        /\ pc[t] = "running"
        /\ pc' = [pc EXCEPT ![t] = "failed"]
        /\ last' = Call("fail", "u1", "allow", NoRetry, FALSE)
        /\ args' = NoArgs
        /\ UNCHANGED <<config, lock, solo, clock, ticks, memvars, redisvars>>
TaskRelease ==
    \E t \in Tasks :
        /\ pc[t] \in {"running", "failed"}
        /\ CanRelease("u1")
        /\ ReleaseSlot("u1", NoSession)
        /\ pc' = [pc EXCEPT ![t] = IF PendingOf("u1")' > PendingOf("u1")
                                   THEN "releasing" ELSE "idle"]
TaskReleaseSet ==
    \E t \in Tasks :
        /\ pc[t] = "releasing"
        /\ ReleaseSet("u1")
        /\ pc' = [pc EXCEPT ![t] = "idle"]
TaskTick == ticks < MaxTaskTicks /\ (\E d \in TickSteps : Advance(d)) /\ UNCHANGED pc

NextTasks ==
    \/ TaskCheck \/ TaskRecord \/ TaskAcquire \/ TaskFail \/ TaskRelease
    \/ TaskReleaseSet \/ TaskTick \/ RedisDown \/ RedisUp

SpecTasks == InitTasks /\ [][NextTasks]_vars

----------------------------------------------------------------------------
(* SpecIdent: the in-memory backend with callers that name themselves by   *)
(* any user_id and session_id, a user_id being any string the caller       *)
(* passes, under every setting of require_user_id and fallback_to_session. *)

IdentUsers == {NoUser, "u1", "anonymous", "session:s1"}
IdentSessions == {NoSession, "s1"}

IdentConfig(require_user_id, fallback_to_session) ==
    [Config(TRUE, FALSE) EXCEPT !.require_user_id = require_user_id,
                                !.fallback_to_session = fallback_to_session]

InitIdent ==
    /\ config \in {IdentConfig(r, f) : r \in BOOLEAN, f \in BOOLEAN}
    /\ InitState

IdentCheck ==
    \E u \in IdentUsers, s \in IdentSessions :
        CheckLimit(u, s, 0, 0) /\ UNCHANGED pc
IdentRecord ==
    \E u \in IdentUsers, s \in IdentSessions :
        /\ CanRecord(get_identifier(u, s).id, 0, MaxUserCount)
        /\ RecordRequest(u, s, 0, 0)
        /\ UNCHANGED pc

NextIdent == IdentCheck \/ IdentRecord

SpecIdent == InitIdent /\ [][NextIdent]_vars

----------------------------------------------------------------------------
(* SpecOrder: one caller who checks, records, acquires and releases what   *)
(* was acquired, against the in-memory backend (per-user or global) or a   *)
(* Redis server that answers every command.                                *)

InitOrder ==
    /\ config \in {Config(TRUE, FALSE), Config(FALSE, FALSE), Config(TRUE, TRUE)}
    /\ InitState

HeldSlots(id) ==
    IF Distributed THEN StoreGet(redis_store, make_key(id, concurrent_window))
    ELSE ConcurrentOf(Mem, id)

OrderCheck ==
    \E e \in TokenAmounts \cup LargeEstimates :
        CheckLimit("u1", NoSession, e, 0) /\ UNCHANGED pc
OrderRecord ==
    \E k \in TokenAmounts :
        /\ CanRecord("u1", k, max_requests + MaxOver)
        /\ RecordRequest("u1", NoSession, k, 0)
        /\ UNCHANGED pc
OrderAcquire == CanAcquire("u1") /\ AcquireSlot("u1", NoSession) /\ UNCHANGED pc
OrderRelease == HeldSlots("u1") > 0 /\ ReleaseSlot("u1", NoSession) /\ UNCHANGED pc
OrderTick == ticks < MaxTicks /\ (\E d \in TickSteps : Advance(d)) /\ UNCHANGED pc

NextOrder == OrderCheck \/ OrderRecord \/ OrderAcquire \/ OrderRelease \/ OrderTick

SpecOrder == InitOrder /\ [][NextOrder]_vars

----------------------------------------------------------------------------
(* SpecDrift: one caller against the in-memory backend (per-user or       *)
(* global) or Redis, with the clock moving on between the handler's read   *)
(* of time.time() (now, line 329 or 507) and the read made by the default  *)
(* factory of a RateLimitState the handler creates (line 76).  The model's *)
(* clock counts whole seconds, so the time between the two reads is none   *)
(* or one unit; MaxDrift bounds the seconds so spent over a run.           *)

InitDrift ==
    /\ config \in {Config(TRUE, FALSE), Config(FALSE, FALSE), Config(TRUE, TRUE)}
    /\ InitState

CanDrift(d) == (clock % 30) + d <= MaxDrift

DriftCheck ==
    \E e \in LargeEstimates, d \in 0..MaxDrift :
        /\ CanDrift(d)
        /\ CheckLimit("u1", NoSession, e, d)
        /\ UNCHANGED pc
DriftRecord ==
    \E d \in 0..MaxDrift :
        /\ CanDrift(d)
        /\ CanRecord("u1", 0, max_requests + MaxOver)
        /\ RecordRequest("u1", NoSession, 0, d)
        /\ UNCHANGED pc
DriftReset ==
    \E u \in {"u1", NoUser}, d \in 0..MaxDrift :
        /\ CanDrift(d)
        /\ Reset(u, d)
        /\ UNCHANGED pc
DriftTick == ticks < MaxDriftTicks /\ (\E d \in TickSteps : Advance(d)) /\ UNCHANGED pc

NextDrift == DriftCheck \/ DriftRecord \/ DriftReset \/ DriftTick

SpecDrift == InitDrift /\ [][NextDrift]_vars

----------------------------------------------------------------------------
(* SpecLeak: request-handling tasks of one caller against a Redis server   *)
(* that answers every command, max_concurrent_requests = 2.  Each task     *)
(* checks, acquires a slot when admitted, and releases it; task 1 may      *)
(* crash while it holds its slot and then never releases.  Only the        *)
(* concurrency key is used, whose life depends on the time left to live    *)
(* and not on the date, so time is measured from the present: a step of    *)
(* time lowers every key's time to live and leaves the clock at 0.  Time   *)
(* never stops passing (WF).                                               *)

LeakSteps == {100, ConcurrentTTL}

LeakConfig == [Config(TRUE, TRUE) EXCEPT !.max_concurrent_requests = 2]

InitLeak ==
    /\ config = LeakConfig
    /\ InitState

LeakCheck ==
    \E t \in Tasks :
        /\ pc[t] = "idle"
        /\ CheckLimit("u1", NoSession, 0, 0)
        /\ pc' = [pc EXCEPT ![t] = IF last'.outcome = "allow" THEN "admitted" ELSE "idle"]
LeakAcquire ==
    \E t \in Tasks :
        /\ pc[t] = "admitted"
        /\ CanAcquire("u1")
        /\ AcquireSlot("u1", NoSession)
        /\ pc' = [pc EXCEPT ![t] = "running"]
LeakCrash ==
    /\ pc[1] = "running"
    /\ pc' = [pc EXCEPT ![1] = "crashed"]
    /\ last' = Call("crash", "u1", "allow", NoRetry, FALSE)
    /\ args' = NoArgs
    /\ UNCHANGED <<config, lock, solo, clock, ticks, memvars, redisvars>>
LeakRelease ==
    \E t \in Tasks :
        /\ pc[t] = "running"
        /\ CanRelease("u1")
        /\ ReleaseSlot("u1", NoSession)
        /\ pc' = [pc EXCEPT ![t] = IF PendingOf("u1")' > PendingOf("u1")
                                   THEN "releasing" ELSE "idle"]
LeakReleaseSet ==
    \E t \in Tasks :
        /\ pc[t] = "releasing"
        /\ ReleaseSet("u1")
        /\ pc' = [pc EXCEPT ![t] = "idle"]
LeakTick ==
    \E step \in LeakSteps :
        /\ redis_store' = StoreExpire(StoreAge(redis_store, step), clock)
        /\ last' = Call("tick", "", "allow", NoRetry, FALSE)
        /\ args' = NoArgs
        /\ UNCHANGED <<config, lock, solo, clock, ticks, memvars, backend, redis_up, pending,
                       release_lost, pc>>

NextLeak ==
    LeakCheck \/ LeakAcquire \/ LeakCrash \/ LeakRelease \/ LeakReleaseSet \/ LeakTick

SpecLeak == InitLeak /\ [][NextLeak]_vars /\ WF_vars(LeakTick)

----------------------------------------------------------------------------
(* SpecScope: two callers, "u1" and "u2", against the in-memory backend or *)
(* a Redis server that answers every command, with per_user set or not.    *)

InitScope ==
    /\ config \in {Config(p, r) : p \in BOOLEAN, r \in BOOLEAN}
    /\ InitState

ScopeCheck == \E u \in UserIds : CheckLimit(u, NoSession, 0, 0) /\ UNCHANGED pc
ScopeRecord ==
    \E u \in UserIds, k \in TokenAmounts :
        /\ CanRecord(u, k, MaxUserCount)
        /\ RecordRequest(u, NoSession, k, 0)
        /\ UNCHANGED pc
ScopeAcquire == \E u \in UserIds : CanAcquire(u) /\ AcquireSlot(u, NoSession) /\ UNCHANGED pc
ScopeRelease ==
    \E u \in UserIds : HeldSlots(u) > 0 /\ ReleaseSlot(u, NoSession) /\ UNCHANGED pc
ScopeTick == ticks < MaxScopeTicks /\ Advance(30) /\ UNCHANGED pc

NextScope == ScopeCheck \/ ScopeRecord \/ ScopeAcquire \/ ScopeRelease \/ ScopeTick

SpecScope == InitScope /\ [][NextScope]_vars

----------------------------------------------------------------------------
(* SpecUsage: the in-memory backend with one caller, "u1", whose usage and *)
(* that of an identifier never seen, "u3", and of no identifier are read   *)
(* at any time.                                                            *)

UsageIds == {"u1", "u3", NoUser}

UsageGet == \E u \in UsageIds : GetUsage(u) /\ UNCHANGED pc

NextUsage == ApiCheck \/ ApiRecord \/ ApiAcquire \/ ApiRelease \/ Tick \/ UsageGet

SpecUsage == Init /\ [][NextUsage]_vars

----------------------------------------------------------------------------
(* SpecLock: the tasks call check, record, acquire_slot and release_slot   *)
(* for "u1".  A call to the in-memory backend waits for RateLimiter._lock, *)
(* holds it for the body of its `async with self._lock` and gives it back  *)
(* on the way out, returning or raising.  A call to the Redis backend      *)
(* waits for the server's reply, which is an error after socket_timeout    *)
(* when the server does not answer.  No time passes.                       *)

LockOps == {"check", "record", "acquire", "release"}

At(op, where) == op \o "_" \o where

InFlight(op) ==
    Cardinality({t \in Tasks : pc[t] \in {At(op, "waiting"), At(op, "locked"),
                                          At(op, "awaiting")}})

\* the bounds on what the tasks record, acquire and release
LockCan(op) ==
    CASE op = "record" ->
             IF Distributed
             THEN StoreGet(redis_store, make_key("u1", minute_window(clock)))
                      + InFlight("record") < max_requests
             ELSE MinuteOf(Mem, "u1").count + InFlight("record") < max_requests
      [] op = "acquire" ->
             IF Distributed
             THEN StoreGet(redis_store, make_key("u1", concurrent_window))
                      + InFlight("acquire") < MaxSlots
             ELSE ConcurrentOf(Mem, "u1") + InFlight("acquire") < MaxSlots
      [] op = "release" ->
             Distributed =>
                /\ PendingOf("u1") + InFlight("release") < MaxPending
                /\ StoreGet(redis_store, make_key("u1", concurrent_window))
                       - InFlight("release") > -MaxSlots
      [] OTHER -> TRUE

\* asyncio.Lock.release of `async with self._lock`, kept when the body raises
lock_release_on_return(l, raised) == [l EXCEPT !.locked = raised]

(* `async with self._lock`: asyncio.Lock.release on the way out of the     *)
(* block, whether the body returned or raised                              *)
lock_release(l, raised) == [l EXCEPT !.locked = FALSE]

InitLock ==
    /\ config \in {Config(TRUE, FALSE), Config(TRUE, TRUE)}
    /\ InitState

(* a task starts a call.  With the in-memory backend it reaches `async     *)
(* with self._lock`: asyncio.Lock.acquire takes a lock that is free with   *)
(* nobody waiting, and queues the task otherwise.  With the Redis backend  *)
(* it sends its first command.                                             *)
LockCall ==
    \E t \in Tasks, op \in LockOps :
        /\ pc[t] = "idle"
        /\ LockCan(op)
        /\ IF Distributed
           THEN /\ pc' = [pc EXCEPT ![t] = At(op, "awaiting")]
                /\ UNCHANGED lock
           ELSE IF ~lock.locked /\ lock.waiters = << >>
           THEN /\ pc' = [pc EXCEPT ![t] = At(op, "locked")]
                /\ lock' = [lock EXCEPT !.locked = TRUE]
           ELSE /\ pc' = [pc EXCEPT ![t] = At(op, "waiting")]
                /\ lock' = [lock EXCEPT !.waiters = Append(@, t)]
        /\ UNCHANGED <<config, solo, clock, ticks, memvars, redisvars, last, args>>

\* asyncio.Lock.acquire: the first waiter takes the lock once it is free
LockEnterTask(t) ==
    \E op \in LockOps :
        /\ pc[t] = At(op, "waiting")
        /\ ~lock.locked
        /\ Head(lock.waiters) = t
        /\ lock' = [locked |-> TRUE, waiters |-> Tail(lock.waiters)]
        /\ pc' = [pc EXCEPT ![t] = At(op, "locked")]
        /\ UNCHANGED <<config, solo, clock, ticks, memvars, redisvars, last, args>>
LockEnter == \E t \in Tasks : LockEnterTask(t)

\* the body of the `async with self._lock` block and the way out of it
LockExit ==
    \E t \in Tasks :
        /\ \/ /\ pc[t] = At("check", "locked")
              /\ LET r == check_limit_memory(Mem, "u1", 0, clock, clock)
                 IN /\ SetMem(r.mem)
                    /\ last' = Call("check", "u1", r.outcome, r.retry_after, FALSE)
                    /\ lock' = lock_release(lock, r.outcome # "allow")
           \/ /\ pc[t] = At("record", "locked")
              /\ SetMem(record_memory(Mem, "u1", 0, clock))
              /\ last' = Call("record", "u1", "allow", NoRetry, FALSE)
              /\ lock' = lock_release(lock, FALSE)
           \/ /\ pc[t] = At("acquire", "locked")
              /\ SetMem(acquire_memory(Mem, "u1"))
              /\ last' = Call("acquire", "u1", "allow", NoRetry, FALSE)
              /\ lock' = lock_release(lock, FALSE)
           \/ /\ pc[t] = At("release", "locked")
              /\ SetMem(release_memory(Mem, "u1"))
              /\ last' = Call("release", "u1", "allow", NoRetry, FALSE)
              /\ lock' = lock_release(lock, FALSE)
        /\ pc' = [pc EXCEPT ![t] = "idle"]
        /\ args' = Args("u1", NoSession, 0)
        /\ UNCHANGED <<config, solo, clock, ticks, redisvars>>

\* the server's reply, or the socket timeout, ends a call to the Redis backend
LockReturnTask(t) ==
    \/ /\ pc[t] = At("check", "awaiting")
       /\ CheckLimit("u1", NoSession, 0, 0)
       /\ pc' = [pc EXCEPT ![t] = "idle"]
    \/ /\ pc[t] = At("record", "awaiting")
       /\ RecordRequest("u1", NoSession, 0, 0)
       /\ pc' = [pc EXCEPT ![t] = "idle"]
    \/ /\ pc[t] = At("acquire", "awaiting")
       /\ AcquireSlot("u1", NoSession)
       /\ pc' = [pc EXCEPT ![t] = "idle"]
    \/ /\ pc[t] = At("release", "awaiting")
       /\ ReleaseSlot("u1", NoSession)
       /\ pc' = [pc EXCEPT ![t] = IF PendingOf("u1")' > PendingOf("u1")
                                  THEN "releasing" ELSE "idle"]
LockReturn == \E t \in Tasks : LockReturnTask(t)

LockReleaseSetTask(t) ==
    /\ pc[t] = "releasing"
    /\ ReleaseSet("u1")
    /\ pc' = [pc EXCEPT ![t] = "idle"]
LockReleaseSet == \E t \in Tasks : LockReleaseSetTask(t)

NextLock ==
    \/ LockCall \/ LockEnter \/ LockExit \/ LockReturn \/ LockReleaseSet
    \/ RedisDown \/ RedisUp

\* the steps of task t seen from its position alone: LockExit and
\* LockReturnTask(t), LockEnterTask(t), LockReleaseSetTask(t)
LockLeaves(t, where) ==
    /\ \E op \in LockOps : pc[t] = At(op, where)
    /\ pc' \in {[pc EXCEPT ![t] = "idle"], [pc EXCEPT ![t] = "releasing"]}
LockEnters(t) ==
    /\ ~lock.locked
    /\ lock.waiters # << >>
    /\ Head(lock.waiters) = t
    /\ \E op \in LockOps : /\ pc[t] = At(op, "waiting")
                            /\ pc' = [pc EXCEPT ![t] = At(op, "locked")]
LockSets(t) == pc[t] = "releasing" /\ pc' = [pc EXCEPT ![t] = "idle"]

\* a task runs on when it can (the event loop), and a command sent to the
\* server ends with a reply or with the timeout
LockFairness ==
    \A t \in Tasks : /\ WF_pc(LockLeaves(t, "locked"))
                     /\ WF_pc(LockLeaves(t, "awaiting"))
                     /\ WF_pc(LockEnters(t))
                     /\ WF_pc(LockSets(t))

SpecLock == InitLock /\ [][NextLock]_vars /\ LockFairness

----------------------------------------------------------------------------
(* SpecAuth: require_user_id is set; the four calls are made for "u1" and  *)
(* with no user_id, with and without a session_id, in per-caller and       *)
(* global scope and with the Redis backend.                                *)

AuthUsers == {NoUser, "u1"}

AuthConfig(per_user, use_redis, fallback_to_session) ==
    [Config(per_user, use_redis) EXCEPT !.require_user_id = TRUE,
                                        !.fallback_to_session = fallback_to_session]

InitAuth ==
    /\ config \in {AuthConfig(TRUE, FALSE, f) : f \in BOOLEAN}
                  \cup {AuthConfig(FALSE, FALSE, f) : f \in BOOLEAN}
                  \cup {AuthConfig(TRUE, TRUE, f) : f \in BOOLEAN}
    /\ InitState

AuthCheck ==
    \E u \in AuthUsers, s \in IdentSessions :
        CheckLimit(u, s, 0, 0) /\ UNCHANGED pc
AuthRecord ==
    \E u \in AuthUsers, s \in IdentSessions :
        /\ CanRecord("u1", 0, max_requests + MaxOver)
        /\ RecordRequest(u, s, 0, 0)
        /\ UNCHANGED pc
AuthAcquire ==
    \E u \in AuthUsers, s \in IdentSessions :
        CanAcquire("u1") /\ AcquireSlot(u, s) /\ UNCHANGED pc
AuthRelease ==
    \E u \in AuthUsers, s \in IdentSessions :
        CanRelease("u1") /\ ReleaseSlot(u, s) /\ UNCHANGED pc
AuthReleaseSet == ReleaseSet("u1") /\ UNCHANGED pc

NextAuth == AuthCheck \/ AuthRecord \/ AuthAcquire \/ AuthRelease \/ AuthReleaseSet

SpecAuth == InitAuth /\ [][NextAuth]_vars

----------------------------------------------------------------------------
(* SpecSeq: the in-memory backend with two callers, one call at a time,    *)
(* where a caller records only right after its own admitted check.         *)
(* Nothing else bounds the request counts.                                 *)

SeqCheck ==
    \E u \in UserIds, e \in TokenAmounts :
        CheckLimit(u, NoSession, e, 0) /\ UNCHANGED pc
SeqRecord ==
    \E u \in UserIds, k \in TokenAmounts :
        /\ last.op = "check"
        /\ last.outcome = "allow"
        /\ last.id = u
        /\ MinuteOf(Mem, u).tokens + k <= MaxTokens
        /\ HourOf(Mem, u).tokens + k <= MaxTokens
        /\ RecordRequest(u, NoSession, k, 0)
        /\ UNCHANGED pc
SeqReset == \E u \in UserIds \cup {NoUser} : Reset(u, 0) /\ UNCHANGED pc
SeqTick == ticks < MaxUserTicks /\ (\E d \in TickSteps : Advance(d)) /\ UNCHANGED pc

NextSeq == SeqCheck \/ SeqRecord \/ SeqReset \/ SeqTick

SpecSeq == Init /\ [][NextSeq]_vars

----------------------------------------------------------------------------
(* SpecRetry: one caller, "u1", with the in-memory backend.  The caller    *)
(* checks and records until a check is rejected for a window; from then on *)
(* it records nothing, waits the retry hint of the rejection (or longer)   *)
(* and repeats the same check, until it is admitted.  The in-memory        *)
(* backend reads the clock only through now - window_start, so time is     *)
(* measured from the present: a step of time moves every window_start back *)
(* and leaves the clock at 0; a window older than every threshold of the   *)
(* code is not aged further.                                               *)

WindowKinds == {"requests_per_minute", "requests_per_hour", "tokens_per_minute"}
RetrySlack == {0, 30}

AgeState(st, step) ==
    [st EXCEPT !.window_start = Max(@ - step, -(HourExpiry + 1))]
MemAge(m, step) ==
    [m EXCEPT !.um = [k \in DOMAIN m.um |-> AgeState(m.um[k], step)],
              !.uh = [k \in DOMAIN m.uh |-> AgeState(m.uh[k], step)],
              !.gm = AgeState(m.gm, step),
              !.gh = AgeState(m.gh, step)]

\* `step` seconds pass
Elapse(step) ==
    /\ SetMem(MemAge(Mem, step))
    /\ UNCHANGED <<config, lock, solo, clock, redisvars, last, args>>

RetryAfterCheck ==
    pc' = [pc EXCEPT ![1] = IF last'.outcome \in WindowKinds THEN "backoff" ELSE "idle"]

RetryCheck ==
    /\ pc[1] = "idle"
    /\ \E e \in TokenAmounts : CheckLimit("u1", NoSession, e, 0)
    /\ RetryAfterCheck
RetryRecord ==
    /\ pc[1] = "idle"
    /\ \E k \in TokenAmounts :
          /\ CanRecord("u1", k, max_requests + MaxOver)
          /\ RecordRequest("u1", NoSession, k, 0)
    /\ UNCHANGED pc
RetryTick ==
    /\ pc[1] = "idle"
    /\ ticks < MaxTicks
    /\ ticks' = ticks + 1
    /\ \E step \in TickSteps : Elapse(step)
    /\ UNCHANGED pc
\* the caller sleeps for the retry hint of the rejection, or longer
RetryWait ==
    /\ pc[1] = "backoff"
    /\ \E slack \in RetrySlack : Elapse(last.retry_after + slack)
    /\ pc' = [pc EXCEPT ![1] = "waited"]
    /\ UNCHANGED ticks
\* and repeats the check that was rejected
RetryAgain ==
    /\ pc[1] = "waited"
    /\ CheckLimit("u1", NoSession, args.tokens, 0)
    /\ RetryAfterCheck

NextRetry == RetryCheck \/ RetryRecord \/ RetryTick \/ RetryWait \/ RetryAgain

\* the steps of the caller seen from its position alone
RetryWaits == pc[1] = "backoff" /\ pc' = [pc EXCEPT ![1] = "waited"]
RetryAgains ==
    /\ pc[1] = "waited"
    /\ pc' \in {[pc EXCEPT ![1] = "idle"], [pc EXCEPT ![1] = "backoff"]}

\* the caller goes on following the guidance
SpecRetry == Init /\ [][NextRetry]_vars /\ WF_pc(RetryWaits) /\ WF_pc(RetryAgains)

----------------------------------------------------------------------------
(* SpecIso: two runs of the in-memory limiter with per_user set, side by   *)
(* side on one clock.  In the first run "u1" and "u2" make calls; the      *)
(* second run, `solo`, gets the calls of "u2" only, the same ones at the   *)
(* same times.                                                              *)

IsoBounded(m, k) ==
    /\ MinuteOf(m, "u2").count < max_requests + MaxOver
    /\ HourOf(m, "u2").count < max_requests + MaxOver
    /\ MinuteOf(m, "u2").tokens + k <= MaxTokens
    /\ HourOf(m, "u2").tokens + k <= MaxTokens

InitIso ==
    /\ config = Config(TRUE, FALSE)
    /\ InitState

\* a call of "u2", made in both runs
IsoBoth(op, tokens, first, second) ==
    /\ SetMem(first.mem)
    /\ solo' = second.mem
    /\ last' = Call(op, "u2", first.outcome, first.retry_after, FALSE)
    /\ args' = Args("u2", NoSession, tokens)
    /\ UNCHANGED <<config, lock, clock, ticks, redisvars>>

IsoCheck ==
    \E e \in TokenAmounts :
        /\ IsoBoth("check", e, check_limit_memory(Mem, "u2", e, clock, clock),
                   check_limit_memory(solo, "u2", e, clock, clock))
        /\ UNCHANGED pc
IsoRecord ==
    \E k \in TokenAmounts :
        /\ IsoBounded(Mem, k)
        /\ IsoBounded(solo, k)
        /\ IsoBoth("record", k, Allowed(record_memory(Mem, "u2", k, clock)),
                   Allowed(record_memory(solo, "u2", k, clock)))
        /\ UNCHANGED pc
IsoAcquire ==
    /\ ConcurrentOf(Mem, "u2") < MaxSlots
    /\ ConcurrentOf(solo, "u2") < MaxSlots
    /\ IsoBoth("acquire", 0, Allowed(acquire_memory(Mem, "u2")),
               Allowed(acquire_memory(solo, "u2")))
    /\ UNCHANGED pc
IsoRelease ==
    /\ IsoBoth("release", 0, Allowed(release_memory(Mem, "u2")),
               Allowed(release_memory(solo, "u2")))
    /\ UNCHANGED pc
\* the calls of "u1", made in the first run only
IsoOtherCheck == CheckLimit("u1", NoSession, 0, 0) /\ UNCHANGED pc
IsoTick == ticks < MaxUserTicks /\ (\E d \in TickSteps : Advance(d)) /\ UNCHANGED pc

NextIso ==
    \/ IsoCheck \/ IsoRecord \/ IsoAcquire \/ IsoRelease
    \/ IsoOtherCheck \/ IsoTick

SpecIso == InitIso /\ [][NextIso]_vars

----------------------------------------------------------------------------
(* SpecRace: the tasks of several instances work on the concurrency key of *)
(* "u1" in a Redis server that answers every command; time passes 30 s at  *)
(* a time, MaxTaskTicks times, less than the key's time to live, so        *)
(* the key never expires.  A task acquires a slot and releases it; while   *)
(* no slot is held a task may also call release (the call is open to any   *)
(* caller), which is what drives the counter below zero.  A release whose  *)
(* DECR returned a count below zero is "releasing" until its SET.          *)

InitRace ==
    /\ config = Config(TRUE, TRUE)
    /\ InitState

RaceCheck ==
    \E t \in Tasks :
        /\ pc[t] = "idle"
        /\ CheckLimit("u1", NoSession, 0, 0)
        /\ UNCHANGED pc
RaceAcquire ==
    \E t \in Tasks :
        /\ pc[t] = "idle"
        /\ CanAcquire("u1")
        /\ AcquireSlot("u1", NoSession)
        /\ pc' = [pc EXCEPT ![t] = "running"]
RaceRelease ==
    \E t \in Tasks :
        /\ \/ pc[t] = "running"
           \/ pc[t] = "idle" /\ \A u \in Tasks : pc[u] # "running"
        /\ CanRelease("u1")
        /\ ReleaseSlot("u1", NoSession)
        /\ pc' = [pc EXCEPT ![t] = IF PendingOf("u1")' > PendingOf("u1")
                                   THEN "releasing" ELSE "idle"]
RaceReleaseSet ==
    \E t \in Tasks :
        /\ pc[t] = "releasing"
        /\ ReleaseSet("u1")
        /\ pc' = [pc EXCEPT ![t] = "idle"]

RaceTick == ticks < MaxTaskTicks /\ Advance(30) /\ UNCHANGED pc

NextRace == RaceCheck \/ RaceAcquire \/ RaceRelease \/ RaceReleaseSet \/ RaceTick

SpecRace == InitRace /\ [][NextRace]_vars

----------------------------------------------------------------------------
(* SpecConn: one caller, "u1", with the Redis backend; the server stops    *)
(* answering and answers again at any time, and the limiter may be closed  *)
(* at any time, before its first call too, and used afterwards.            *)

ConnCheck == CheckLimit("u1", NoSession, 0, 0) /\ UNCHANGED pc
ConnRecord ==
    /\ CanRecord("u1", 0, MaxUserCount)
    /\ RecordRequest("u1", NoSession, 0, 0)
    /\ UNCHANGED pc
ConnAcquire == CanAcquire("u1") /\ AcquireSlot("u1", NoSession) /\ UNCHANGED pc
ConnRelease == CanRelease("u1") /\ ReleaseSlot("u1", NoSession) /\ UNCHANGED pc
ConnReleaseSet == ReleaseSet("u1") /\ UNCHANGED pc
ConnClose == Close /\ UNCHANGED pc

NextConn ==
    \/ ConnCheck \/ ConnRecord \/ ConnAcquire \/ ConnRelease \/ ConnReleaseSet
    \/ ConnClose \/ RedisDown \/ RedisUp

SpecConn == InitRedis /\ [][NextConn]_vars

----------------------------------------------------------------------------
(* SpecOff: the limiter is disabled (enabled = False), in per-caller and   *)
(* global scope, with the in-memory and the Redis backend, with and        *)
(* without require_user_id; the four calls are made with and without       *)
(* user_id and session_id, time passes and the server goes down and up.    *)

OffConfig(per_user, use_redis, require_user_id) ==
    [Config(per_user, use_redis) EXCEPT !.enabled = FALSE,
                                        !.require_user_id = require_user_id]

InitOff ==
    /\ config \in {OffConfig(p, r, q) : p \in BOOLEAN, r \in BOOLEAN, q \in BOOLEAN}
    /\ InitState

OffCheck ==
    \E u \in AuthUsers, s \in IdentSessions, e \in TokenAmounts :
        CheckLimit(u, s, e, 0) /\ UNCHANGED pc
OffRecord ==
    \E u \in AuthUsers, s \in IdentSessions, k \in TokenAmounts :
        RecordRequest(u, s, k, 0) /\ UNCHANGED pc
OffAcquire ==
    \E u \in AuthUsers, s \in IdentSessions :
        AcquireSlot(u, s) /\ UNCHANGED pc
OffRelease ==
    \E u \in AuthUsers, s \in IdentSessions :
        ReleaseSlot(u, s) /\ UNCHANGED pc
OffTick == ticks < MaxTaskTicks /\ Advance(30) /\ UNCHANGED pc

NextOff ==
    OffCheck \/ OffRecord \/ OffAcquire \/ OffRelease \/ OffTick \/ RedisDown \/ RedisUp

SpecOff == InitOff /\ [][NextOff]_vars

----------------------------------------------------------------------------
(* SpecMw: rate_limit_middleware (agent/middleware.py) around a tool call. *)
(* Task 1 is invoked with the limiter as rate_limiter, task 2 with         *)
(* rate_limiter = None; each is invoked again after it returned or raised. *)
(* The limiter is in-memory and also takes the calls of "u1".              *)

MwIdentifier == "tool:f"
HasLimiter(t) == t = 1

\* the parameters of RateLimiter.check_limit and RateLimiter.record_request
\* and the keywords the middleware passes to both
CheckLimitParams == {"user_id", "estimated_tokens", "session_id"}
RecordRequestParams == {"user_id", "tokens_used", "session_id"}
MwKeywords == {"identifier"}
\* Python binds a call's keywords to the parameters, or raises TypeError
Binds(params, keywords) == keywords \subseteq params

Mw(t, op, outcome, position) ==
    /\ pc' = [pc EXCEPT ![t] = position]
    /\ last' = Call(op, MwIdentifier, outcome, NoRetry, FALSE)
    /\ args' = NoArgs
    /\ UNCHANGED <<config, lock, solo, clock, ticks, memvars, redisvars>>

\* lines 493-504: the check, when there is a limiter; what it raises is
\* logged and raised again
MwCheck ==
    \E t \in Tasks :
        /\ pc[t] = "idle"
        /\ IF ~HasLimiter(t) THEN Mw(t, "mw_skip", "allow", "checked")
           ELSE IF ~Binds(CheckLimitParams, MwKeywords)
           THEN Mw(t, "mw_check", "error", "raised")
           ELSE /\ CheckLimit(MwIdentifier, NoSession, 0, 0)
                /\ pc' = [pc EXCEPT ![t] = IF last'.outcome = "allow" THEN "checked"
                                           ELSE "raised"]
\* line 505: the wrapped tool call, which returns or raises
MwNext ==
    \E t \in Tasks, position \in {"called", "raised"} :
        /\ pc[t] = "checked"
        /\ Mw(t, "mw_call", IF position = "called" THEN "allow" ELSE "error", position)
\* lines 507-509: the record, when there is a limiter
MwRecord ==
    \E t \in Tasks :
        /\ pc[t] = "called"
        /\ IF ~HasLimiter(t) THEN Mw(t, "mw_return", "allow", "done")
           ELSE IF ~Binds(RecordRequestParams, MwKeywords)
           THEN Mw(t, "mw_record", "error", "raised")
           ELSE /\ RecordRequest(MwIdentifier, NoSession, 0, 0)
                /\ pc' = [pc EXCEPT ![t] = "done"]
\* the next invocation of the middleware
MwInvoke ==
    \E t \in Tasks :
        /\ pc[t] \in {"raised", "done"}
        /\ Mw(t, "mw_start", "allow", "idle")

NextMw == MwCheck \/ MwNext \/ MwRecord \/ MwInvoke \/ ApiCheck \/ ApiRecord \/ Tick

SpecMw == Init /\ [][NextMw]_vars

----------------------------------------------------------------------------
(* The claims *)

MemNext == [um |-> user_minute_state', uh |-> user_hour_state',
            gm |-> global_minute_state', gh |-> global_hour_state',
            cr |-> concurrent_requests', gc |-> global_concurrent']

\* the concurrency counter the active backend keeps for an identifier
CounterOf(id) ==
    IF Distributed THEN StoreGet(redis_store, make_key(id, concurrent_window))
    ELSE ConcurrentOf(Mem, id)

\* C1: in the in-memory backend, with the concurrency and hour limits not
\* reached, a check is admitted exactly when the requests recorded in the
\* minute window are below int(requests_per_minute * burst_multiplier), which
\* is 90 for 60 * 1.5 and 2 for 2 * 1.0, and is rejected with kind
\* requests_per_minute otherwise.
C1_Ceiling == IF config.requests_per_minute = 60 THEN 90 ELSE 2
C1_AdmittedBelowCeiling ==
    (/\ last.op = "check"
     /\ ConcurrentOf(Mem, "u1") < config.max_concurrent_requests
     /\ HourOf(Mem, "u1").count < config.requests_per_hour)
    => /\ (last.outcome = "allow") <=> (MinuteOf(Mem, "u1").count < C1_Ceiling)
       /\ (last.outcome = "requests_per_minute")
             <=> (MinuteOf(Mem, "u1").count >= C1_Ceiling)
C1_Witness ==
    /\ config.requests_per_minute = 60
    /\ last.op = "check"
    /\ last.outcome = "requests_per_minute"
    /\ MinuteOf(Mem, "u1").count = 90

\* C2: a check changes no request count, token count or concurrency count
\* of any identifier or of the global counters, but for the rollover of a
\* window that is stale when the check reads the clock.
C2_Kept(before, after, period) ==
    \/ after.count = before.count /\ after.tokens = before.tokens
    \/ /\ clock - before.window_start >= period
       /\ after.count = 0
       /\ after.tokens \in {0, before.tokens}
C2_UserMinute(m, id) == IF id \in DOMAIN m.um THEN m.um[id] ELSE RateLimitState(clock)
C2_UserHour(m, id) == IF id \in DOMAIN m.uh THEN m.uh[id] ELSE RateLimitState(clock)
C2_UserConcurrent(m, id) == IF id \in DOMAIN m.cr THEN m.cr[id] ELSE 0
C2_CheckStep ==
    (last'.op = "check") =>
        /\ \A id \in UserIds :
              /\ C2_Kept(C2_UserMinute(Mem, id), C2_UserMinute(MemNext, id), MinutePeriod)
              /\ C2_Kept(C2_UserHour(Mem, id), C2_UserHour(MemNext, id), HourPeriod)
              /\ C2_UserConcurrent(MemNext, id) = C2_UserConcurrent(Mem, id)
        /\ C2_Kept(global_minute_state, global_minute_state', MinutePeriod)
        /\ C2_Kept(global_hour_state, global_hour_state', HourPeriod)
        /\ global_concurrent' = global_concurrent
C2_CheckMutatesNothing == [][C2_CheckStep]_vars
C2_Witness ==
    /\ last.op = "check"
    /\ last.outcome = "allow"
    /\ MinuteOf(Mem, "u1").count = 2
    /\ MinuteOf(Mem, "u1").tokens = 2

\* C3: when every record and every acquire of a caller follows an admitted
\* check of the same task, the requests recorded in the minute window never
\* exceed the ceiling and the concurrency counter never exceeds
\* max_concurrent_requests.
C3_NoOvershoot ==
    ~Distributed =>
        /\ MinuteOf(Mem, "u1").count <= max_requests
        /\ ConcurrentOf(Mem, "u1") <= config.max_concurrent_requests

\* C4 as stated: once every acquired slot has been released and no call is
\* in progress, the concurrency counter of the identifier is 0.
C4_AllReleased == \A t \in Tasks : pc[t] \notin {"running", "failed", "releasing"}
C5_NeverNegative ==
    /\ CounterOf("u1") >= 0
    /\ \A id \in DOMAIN concurrent_requests : concurrent_requests[id] >= 0
    /\ global_concurrent >= 0

\* C6: with the Redis backend selected, no call ever raises an
\* infrastructure error: a call returns normally or raises a limit
\* rejection or the identity-required rejection.
C6_NoInfrastructureError ==
    last.outcome \in {"allow", "concurrent", "requests_per_minute",
                      "requests_per_hour", "tokens_per_minute", "authentication"}
C6_Witness ==
    /\ last.op \in {"check", "record", "acquire", "release"}
    /\ last.failed
    /\ last.outcome = "allow"
    /\ ~redis_up
    /\ backend.client

\* C7: a record made while the Redis backend fails is counted in the local
\* minute and hour windows.
C7_RecordFallsBackToLocal ==
    (last.op = "record" /\ last.failed) =>
        /\ MinuteOf(Mem, "u1").count >= 1
        /\ HourOf(Mem, "u1").count >= 1

\* C8: a check made 60 seconds or more after window_start, for an identifier
\* whose request count or token count is at its ceiling and whose other
\* limits are not reached, is admitted, and leaves the minute request count
\* and the minute token count at zero.
C8_Saturated ==
    \/ MinuteOf(Mem, "u1").count >= max_requests
    \/ MinuteOf(Mem, "u1").tokens >= max_tokens
C8_OthersFree ==
    /\ ConcurrentOf(Mem, "u1") < config.max_concurrent_requests
    /\ \/ HourOf(Mem, "u1").count < config.requests_per_hour
       \/ clock - HourOf(Mem, "u1").window_start >= HourPeriod
C8_Step ==
    (/\ last'.op = "check"
     /\ last'.id = "u1"
     /\ C8_Saturated
     /\ C8_OthersFree
     /\ MinuteOf(Mem, "u1").window_start >= 0
     /\ clock - MinuteOf(Mem, "u1").window_start >= MinutePeriod)
    => /\ last'.outcome = "allow"
       /\ MinuteOf(MemNext, "u1").count = 0
       /\ MinuteOf(MemNext, "u1").tokens = 0
C8_FreshAfterPeriod == [][C8_Step]_vars

\* C9: the request count of a window decreases from one state to the next
\* only in a reset, or when the window is stale (the clock is a period or
\* more past its window_start).
C9_Step ==
    \A id \in UserIds :
        /\ MinuteOf(MemNext, id).count < MinuteOf(Mem, id).count
              => \/ last'.op = "reset"
                 \/ clock - MinuteOf(Mem, id).window_start >= MinutePeriod
        /\ HourOf(MemNext, id).count < HourOf(Mem, id).count
              => \/ last'.op = "reset"
                 \/ clock - HourOf(Mem, id).window_start >= HourPeriod
C9_CountNeverDecreases == [][C9_Step]_vars
C9_Witness ==
    /\ last.op = "check"
    /\ MinuteOf(Mem, "u1").count = 0
    /\ MinuteOf(Mem, "u1").window_start = 60
    /\ HourOf(Mem, "u1").count = 2
    /\ MinuteOf(Mem, "u2").count = 2

\* C10: reset(identifier) removes the minute window, hour window and
\* concurrency counter of that identifier and changes nothing else; reset()
\* removes every identifier's state and zeroes the global minute, hour and
\* concurrency counters.
C10_Others(d, e, id) ==
    /\ DOMAIN e = DOMAIN d \ {id}
    /\ \A k \in DOMAIN e : e[k] = d[k]
C10_Step ==
    (last'.op = "reset") =>
        IF last'.id # ""
        THEN /\ C10_Others(user_minute_state, user_minute_state', last'.id)
             /\ C10_Others(user_hour_state, user_hour_state', last'.id)
             /\ C10_Others(concurrent_requests, concurrent_requests', last'.id)
             /\ UNCHANGED <<global_minute_state, global_hour_state, global_concurrent>>
        ELSE /\ user_minute_state' = EmptyDict
             /\ user_hour_state' = EmptyDict
             /\ concurrent_requests' = EmptyDict
             /\ global_minute_state'.count = 0 /\ global_minute_state'.tokens = 0
             /\ global_hour_state'.count = 0 /\ global_hour_state'.tokens = 0
             /\ global_concurrent' = 0
C10_ResetFrame == [][C10_Step]_vars
C10_Witness ==
    /\ last.op = "reset"
    /\ last.id = "u1"
    /\ "u1" \notin DOMAIN user_minute_state
    /\ "u2" \in DOMAIN user_minute_state
    /\ user_minute_state["u2"].count = 2
    /\ "u2" \in DOMAIN concurrent_requests
    /\ concurrent_requests["u2"] = 1

\* C11: the identifier a call works on is the user_id when one is given;
\* otherwise the call is rejected with kind authentication when
\* require_user_id is set; otherwise it is "session:" followed by the
\* session_id when fallback_to_session is set and a session_id is given;
\* otherwise it is "anonymous"; and a call without user_id never works on
\* an identifier that is another caller's user_id.
C11_Resolved ==
    IF args.user_id # "" THEN last.id = args.user_id /\ last.outcome # "authentication"
    ELSE IF config.require_user_id THEN last.outcome = "authentication"
    ELSE IF config.fallback_to_session /\ args.session_id # ""
         THEN last.id = "session:" \o args.session_id
    ELSE last.id = "anonymous"
\* C11, its last part fails when a call without user_id follows a call of a
\* caller whose user_id is the identifier it resolves to
C11_SharesKey ==
    /\ args.user_id # ""
    /\ last.op \in {"check", "record"}
    /\ args'.user_id = ""
    /\ last'.outcome # "authentication"
    /\ last'.id = args.user_id
C11_Step ==
    (last'.op \in {"check", "record"}) => (C11_Resolved' /\ ~C11_SharesKey)
C11_ResolvesInOrder == [][C11_Step]_vars
\* C11, the resolution order alone
C11_OrderOnly == last.op \in {"check", "record"} => C11_Resolved

\* C12: a check reports the kind of the first limit reached in the order
\* concurrency cap, minute request window, hour request window, minute token
\* budget (the last only when estimated_tokens > 0), whichever other limits
\* are reached at the same time; each limit is taken at the ceiling the
\* check applies to it, and a window that is stale or absent counts zero
\* requests.  The Redis backend is held to the order of the three limits it
\* reads.
C12_Requests(st, period) ==
    IF st.window_start < 0 \/ clock - st.window_start >= period THEN 0 ELSE st.count
C12_MinuteCount ==
    IF Distributed THEN StoreGet(redis_store, make_key("u1", minute_window(clock)))
    ELSE C12_Requests(MinuteOf(Mem, "u1"), MinutePeriod)
C12_HourCount ==
    IF Distributed THEN StoreGet(redis_store, make_key("u1", hour_window(clock)))
    ELSE C12_Requests(HourOf(Mem, "u1"), HourPeriod)
C12_ConcurrencyReached == HeldSlots("u1") >= config.max_concurrent_requests
C12_MinuteReached == C12_MinuteCount >= max_requests
C12_HourReached == C12_HourCount >= config.requests_per_hour
C12_MinuteCurrent ==
    /\ MinuteOf(Mem, "u1").window_start >= 0
    /\ clock - MinuteOf(Mem, "u1").window_start < MinutePeriod
C12_Step ==
    (last'.op = "check") =>
        /\ C12_ConcurrencyReached => last'.outcome = "concurrent"
        /\ (~C12_ConcurrencyReached /\ C12_MinuteReached)
              => last'.outcome = "requests_per_minute"
        /\ (~C12_ConcurrencyReached /\ ~C12_MinuteReached /\ C12_HourReached)
              => last'.outcome = "requests_per_hour"
        /\ (~C12_ConcurrencyReached /\ ~C12_MinuteReached /\ ~C12_HourReached)
              => /\ last'.outcome \in {"allow", "tokens_per_minute"}
                 /\ last'.outcome = "tokens_per_minute" => args'.tokens > 0
                 /\ (~Distributed /\ args'.tokens = 0) => last'.outcome = "allow"
                 /\ (~Distributed /\ args'.tokens > 0 /\ C12_MinuteCurrent)
                       => (last'.outcome = "tokens_per_minute"
                             <=> MinuteOf(Mem, "u1").tokens + args'.tokens > max_tokens)
C12_FirstLimitReached == [][C12_Step]_vars
C12_Witness ==
    /\ last.op = "check"
    /\ last.outcome = "concurrent"
    /\ args.tokens > 0
    /\ ~Distributed
    /\ C12_MinuteReached
    /\ C12_HourReached
    /\ C12_MinuteCurrent
    /\ MinuteOf(Mem, "u1").tokens + args.tokens > max_tokens

\* C13: every window's ceiling is int(limit * burst_multiplier): with the
\* limits before it not reached, a check is rejected with kind
\* requests_per_minute exactly when the minute count has reached
\* int(requests_per_minute * burst_multiplier), else with kind
\* requests_per_hour exactly when the hour count has reached
\* int(requests_per_hour * burst_multiplier), else (in-memory, with a current
\* minute window) with kind tokens_per_minute exactly when the tokens in the
\* window plus estimated_tokens are above int(tokens_per_minute *
\* burst_multiplier).
C13_HourCeiling == Burst(config.requests_per_hour)
C13_Step ==
    (last'.op = "check" /\ ~C12_ConcurrencyReached) =>
        /\ last'.outcome = "requests_per_minute"
              <=> C12_MinuteCount >= Burst(config.requests_per_minute)
        /\ C12_MinuteCount < Burst(config.requests_per_minute)
              => /\ last'.outcome = "requests_per_hour"
                       <=> C12_HourCount >= C13_HourCeiling
                 /\ (/\ C12_HourCount < C13_HourCeiling
                     /\ ~Distributed /\ args'.tokens > 0 /\ C12_MinuteCurrent)
                       => (last'.outcome = "tokens_per_minute"
                             <=> MinuteOf(Mem, "u1").tokens + args'.tokens
                                   > Burst(config.tokens_per_minute))
C13_BurstOnEveryWindow == [][C13_Step]_vars

\* C14: a record is never rejected on a limit and adds exactly 1 to the
\* minute and to the hour request counter of the identifier and exactly
\* tokens_used to its minute and to its hour token counter, in the in-memory
\* store and in the Redis store (where whatever keys hold the identifier's
\* counters grow by 1 + 1 + tokens_used + tokens_used in total), also when
\* the counters are at or above their ceilings.
RECURSIVE StoreTotal(_, _)
StoreTotal(store, keys) ==
    IF keys = {} THEN 0
    ELSE LET k == CHOOSE x \in keys : TRUE
         IN store[k].value + StoreTotal(store, keys \ {k})
C14_KeysOf(store, id) == {k \in DOMAIN store : k[1] = id /\ k[2][1] # "concurrent"}
C14_Step ==
    (last'.op = "record") =>
        /\ last'.outcome = "allow"
        /\ IF Distributed
           THEN /\ StoreGet(redis_store', make_key("u1", minute_window(clock)))
                     = StoreGet(redis_store, make_key("u1", minute_window(clock))) + 1
                /\ StoreGet(redis_store', make_key("u1", hour_window(clock)))
                     = StoreGet(redis_store, make_key("u1", hour_window(clock))) + 1
                /\ StoreTotal(redis_store', C14_KeysOf(redis_store', "u1"))
                     = StoreTotal(redis_store, C14_KeysOf(redis_store, "u1"))
                         + 2 + 2 * args'.tokens
           ELSE /\ MinuteOf(MemNext, "u1").count = MinuteOf(Mem, "u1").count + 1
                /\ HourOf(MemNext, "u1").count = HourOf(Mem, "u1").count + 1
                /\ MinuteOf(MemNext, "u1").tokens = MinuteOf(Mem, "u1").tokens + args'.tokens
                /\ HourOf(MemNext, "u1").tokens = HourOf(Mem, "u1").tokens + args'.tokens
C14_RecordCountsAll == [][C14_Step]_vars

\* C15: the retry hint of a check rejected on the minute request window or
\* on the minute token budget is greater than 0 and at most 60, and the
\* hint of a check rejected on the hour request window is greater than 0
\* and at most 3600, in the in-memory backend and in the Redis backend.
C15_HintsBounded ==
    (last.op = "check") =>
        /\ last.outcome \in {"requests_per_minute", "tokens_per_minute"}
              => (last.retry_after > 0 /\ last.retry_after <= MinutePeriod)
        /\ last.outcome = "requests_per_hour"
              => (last.retry_after > 0 /\ last.retry_after <= HourPeriod)

\* C16: in the in-memory and in the Redis backend, a check with
\* estimated_tokens > 0 that reaches none of the limits before the token
\* budget is rejected with kind tokens_per_minute exactly when the tokens
\* consumed in the current minute window plus estimated_tokens are above
\* the token ceiling (so at least whenever estimated_tokens alone is above
\* it), and a check rejected so leaves the request, token and concurrency
\* counters as they were.
C16_Consumed == IF C12_MinuteCurrent THEN MinuteOf(Mem, "u1").tokens ELSE 0
C16_CountersKept ==
    /\ redis_store' = redis_store
    /\ ConcurrentOf(MemNext, "u1") = ConcurrentOf(Mem, "u1")
    /\ C2_Kept(MinuteOf(Mem, "u1"), MinuteOf(MemNext, "u1"), MinutePeriod)
    /\ C2_Kept(HourOf(Mem, "u1"), HourOf(MemNext, "u1"), HourPeriod)
C16_Step ==
    (/\ last'.op = "check"
     /\ args'.tokens > 0
     /\ ~C12_ConcurrencyReached /\ ~C12_MinuteReached /\ ~C12_HourReached)
    => /\ args'.tokens > max_tokens => last'.outcome = "tokens_per_minute"
       /\ ~Distributed => (last'.outcome = "tokens_per_minute"
                             <=> C16_Consumed + args'.tokens > max_tokens)
       /\ last'.outcome = "tokens_per_minute" => C16_CountersKept
C16_TokenBudgetChecked == [][C16_Step]_vars

\* C17: a check or a record that reaches a window whose window_start is a
\* period or more behind the clock leaves it rolled over: window_start is
\* the time of the call and the request and token counts are zero after a
\* check, and 1 and tokens_used, the call's own, after a record.
C17_Stale(st, period) == st.window_start >= 0 /\ clock - st.window_start >= period
C17_Rolled(st, own_count, own_tokens) ==
    /\ st.window_start = clock
    /\ st.count = own_count
    /\ st.tokens = own_tokens
C17_Step ==
    /\ (last'.op = "check" /\ last'.id = "u1" /\ last'.outcome # "concurrent")
          => /\ C17_Stale(MinuteOf(Mem, "u1"), MinutePeriod)
                   => C17_Rolled(MinuteOf(MemNext, "u1"), 0, 0)
             /\ (C17_Stale(HourOf(Mem, "u1"), HourPeriod)
                   /\ last'.outcome # "requests_per_minute")
                   => C17_Rolled(HourOf(MemNext, "u1"), 0, 0)
    /\ (last'.op = "record" /\ last'.id = "u1")
          => /\ C17_Stale(MinuteOf(Mem, "u1"), MinutePeriod)
                   => C17_Rolled(MinuteOf(MemNext, "u1"), 1, args'.tokens)
             /\ C17_Stale(HourOf(Mem, "u1"), HourPeriod)
                   => C17_Rolled(HourOf(MemNext, "u1"), 1, args'.tokens)
C17_LazyRollover == [][C17_Step]_vars

\* C18: under a clock that never goes back, the window_start of an
\* identifier's minute or hour window, and of the global windows, is never
\* smaller than an earlier window_start of the same window, also when the
\* window was removed by cleanup or reset and created again.  Stated step by
\* step: no window_start is ahead of the clock, a window kept by a step
\* keeps or raises its window_start, and a window_start set by a step (on
\* rollover or creation) is not behind the clock the step started at, which
\* is not behind any window_start there has been.
C18_NotAhead(st) == st.window_start <= clock
C18_Forward(before, after) ==
    /\ after.window_start >= before.window_start
    /\ after.window_start # before.window_start => after.window_start >= clock
C18_DictForward(d, e) ==
    \A id \in DOMAIN e :
        IF id \in DOMAIN d THEN C18_Forward(d[id], e[id])
        ELSE e[id].window_start >= clock
C18_Step ==
    /\ clock' >= clock
    /\ \A id \in DOMAIN user_minute_state : C18_NotAhead(user_minute_state[id])
    /\ \A id \in DOMAIN user_hour_state : C18_NotAhead(user_hour_state[id])
    /\ C18_NotAhead(global_minute_state) /\ C18_NotAhead(global_hour_state)
    /\ C18_DictForward(user_minute_state, user_minute_state')
    /\ C18_DictForward(user_hour_state, user_hour_state')
    /\ C18_Forward(global_minute_state, global_minute_state')
    /\ C18_Forward(global_hour_state, global_hour_state')
C18_WindowStartForward == [][C18_Step]_vars
C18_Witness ==
    /\ last.op = "check"
    /\ "u1" \in DOMAIN user_minute_state
    /\ "u1" \in DOMAIN user_hour_state
    /\ user_hour_state["u1"].window_start = 1
    /\ user_minute_state["u1"].window_start = 61

\* C19: with the Redis backend, once a caller has crashed holding a slot
\* the identifier's concurrency counter eventually counts no more than the
\* slots held by the callers still running, whether or not other callers
\* go on acquiring slots for the identifier.
C19_Held == Cardinality({t \in Tasks : pc[t] = "running"})
C19_LeakedSlotFreed == (pc[1] = "crashed") ~> (CounterOf("u1") <= C19_Held)

\* C20: in the in-memory and in the Redis backend, with per_user set a
\* record or an acquire of one identifier leaves the request, token and
\* concurrency counters of every other identifier as they were, and with
\* per_user not set it counts against every other identifier as well: their
\* minute and hour request counters grow by 1 and their token counters by
\* tokens_used on a record, their concurrency counter by 1 on an acquire.
C20_Counters(m, store, id) ==
    IF Distributed
    THEN [minute |-> StoreGet(store, make_key(id, minute_window(clock))),
          hour |-> StoreGet(store, make_key(id, hour_window(clock))),
          minute_tokens |-> 0, hour_tokens |-> 0,
          concurrent |-> StoreGet(store, make_key(id, concurrent_window))]
    ELSE [minute |-> MinuteOf(m, id).count,
          hour |-> HourOf(m, id).count,
          minute_tokens |-> MinuteOf(m, id).tokens,
          hour_tokens |-> HourOf(m, id).tokens,
          concurrent |-> ConcurrentOf(m, id)]
C20_Plus(c, requests, tokens, slots) ==
    [minute |-> c.minute + requests, hour |-> c.hour + requests,
     minute_tokens |-> c.minute_tokens + (IF Distributed THEN 0 ELSE tokens),
     hour_tokens |-> c.hour_tokens + (IF Distributed THEN 0 ELSE tokens),
     concurrent |-> c.concurrent + slots]
C20_Step ==
    \A a \in UserIds : \A b \in UserIds \ {a} :
        LET before == C20_Counters(Mem, redis_store, b)
            after == C20_Counters(MemNext, redis_store', b)
        IN /\ (last'.op = "record" /\ last'.id = a)
                 => after = IF config.per_user THEN before
                            ELSE C20_Plus(before, 1, args'.tokens, 0)
           /\ (last'.op = "acquire" /\ last'.id = a)
                 => after = IF config.per_user THEN before
                            ELSE C20_Plus(before, 0, 0, 1)
C20_ScopeSelection == [][C20_Step]_vars

\* C21 as stated: a check is rejected with kind concurrent exactly when the
\* concurrency counter that applies to the identifier is at or above
\* max_concurrent_requests, every such rejection carries the retry hint 1,
\* and the counter equals the number of slots acquired and not released.
C21_Held == Cardinality({t \in Tasks : pc[t] \in {"running", "failed"}})
C21_Releasing == \E t \in Tasks : pc[t] = "releasing"
C21_CheckStep ==
    (last'.op = "check") =>
        /\ last'.outcome = "concurrent"
              <=> CounterOf("u1") >= config.max_concurrent_requests
        /\ last'.outcome = "concurrent" => last'.retry_after = ConcurrentRetry
C21_Step == C21_CheckStep /\ (~C21_Releasing => CounterOf("u1") = C21_Held)
C21_AmendedStep ==
    /\ (last'.op = "check" /\ ~last'.failed) => C21_CheckStep
    /\ last'.outcome = "concurrent" => last'.retry_after = ConcurrentRetry
    /\ ~Distributed => CounterOf("u1") = C21_Held
C22_Remaining(d) == d.remaining = Max(0, d.limit - d.used) /\ d.remaining >= 0
C22_Step ==
    (last'.op = "usage") =>
        /\ UNCHANGED <<memvars, redis_store>>
        /\ C22_Remaining(last'.usage.requests_minute)
        /\ C22_Remaining(last'.usage.requests_hour)
        /\ C22_Remaining(last'.usage.tokens_minute)
C22_UsageReadOnly == [][C22_Step]_vars
C22_Witness ==
    /\ last.op = "usage"
    /\ args.user_id = "u3"
    /\ "u3" \notin DOMAIN user_minute_state
    /\ "u3" \notin DOMAIN concurrent_requests
    /\ last.usage.requests_minute.remaining = config.requests_per_minute
    /\ MinuteOf(Mem, "u1").count > config.requests_per_minute

\* C23: the cleanup sweep that opens every in-memory check leaves no
\* per-identifier minute entry with now - window_start > 120, no hour entry
\* with now - window_start > 7200 and no concurrency entry at zero (but the
\* one the check then reads for its own identifier), and removes no entry
\* whose window is active (now - window_start below the period), which the
\* check leaves as it was, and no concurrency entry above zero.
C23_NoneStale(d, expiry) ==
    \A id \in DOMAIN d : clock - d[id].window_start <= expiry
C23_LiveKept(d, e, period) ==
    \A id \in DOMAIN d :
        (clock - d[id].window_start < period) => (id \in DOMAIN e /\ e[id] = d[id])
C23_Step ==
    (last'.op = "check" /\ last'.outcome # "authentication") =>
        /\ C23_NoneStale(user_minute_state', MinuteExpiry)
        /\ C23_NoneStale(user_hour_state', HourExpiry)
        /\ \A id \in DOMAIN concurrent_requests' \ {last'.id} :
              concurrent_requests'[id] # 0
        /\ C23_LiveKept(user_minute_state, user_minute_state', MinutePeriod)
        /\ C23_LiveKept(user_hour_state, user_hour_state', HourPeriod)
        /\ \A id \in DOMAIN concurrent_requests :
              concurrent_requests[id] > 0
                 => /\ id \in DOMAIN concurrent_requests'
                    /\ concurrent_requests'[id] = concurrent_requests[id]
C24_InCall(t) == pc[t] # "idle"
C24_Holders == {t \in Tasks : \E op \in LockOps : pc[t] = At(op, "locked")}
C24_EveryCallReturns ==
    /\ \A t \in Tasks : C24_InCall(t) ~> ~C24_InCall(t)
    /\ [](lock.locked <=> Cardinality(C24_Holders) = 1)
    /\ [](~lock.locked => C24_Holders = {})
C24_Witness ==
    /\ last.op = "check"
    /\ last.outcome \in {"concurrent", "requests_per_minute", "requests_per_hour"}
    /\ lock.locked
    /\ \E t \in Tasks : pc[t] = At("record", "locked")

\* C25: a check with estimated_tokens = 0 that comes right after
\* reset(identifier) for the same identifier is admitted, whatever was
\* recorded and acquired before the reset, in per-caller and global scope.
C25_Step ==
    (/\ last.op = "reset"
     /\ last.id = "u1"
     /\ last'.op = "check"
     /\ last'.id = "u1"
     /\ args'.tokens = 0) => last'.outcome = "allow"
C25_AdmittedAfterReset == [][C25_Step]_vars

\* C26: with require_user_id set, a check, record, acquire_slot or
\* release_slot made with no user_id fails with the identity-required
\* rejection (limit type authentication, no retry hint) whatever the
\* session_id is, and changes no window state and no concurrency counter,
\* local or on the Redis server.
C26_Step ==
    (/\ config.require_user_id
     /\ last'.op \in {"check", "record", "acquire", "release"}
     /\ args'.user_id = NoUser)
        => /\ last'.outcome = "authentication"
           /\ last'.retry_after = NoRetry
           /\ UNCHANGED <<memvars, redis_store, pending>>
C26_IdentityRequired == [][C26_Step]_vars
C26_Witness ==
    /\ config.require_user_id
    /\ config.fallback_to_session
    /\ last.op = "release"
    /\ last.outcome = "authentication"
    /\ args.user_id = NoUser
    /\ args.session_id = "s1"
    /\ CounterOf("u1") > 0

\* C27: in the in-memory backend, when calls are not interleaved and every
\* record of an identifier comes right after an admitted check of that
\* identifier, the minute request count of every identifier is at most
\* int(requests_per_minute * burst_multiplier) and its hour request count
\* is at most requests_per_hour, in every reachable state.
C27_SequentialAdmission ==
    \A u \in UserIds :
        /\ MinuteOf(Mem, u).count <= max_requests
        /\ HourOf(Mem, u).count <= config.requests_per_hour
C27_Witness ==
    /\ last.op = "record"
    /\ last.id = "u1"
    /\ MinuteOf(Mem, "u1").count = max_requests
    /\ HourOf(Mem, "u1").count = config.requests_per_hour
    /\ clock > 0

\* C28: a caller whose check was rejected for a window (requests per
\* minute, requests per hour or tokens per minute), who records nothing
\* further and repeats the same check after waiting the retry hint or
\* longer each time it is rejected, is eventually admitted; the token
\* estimates of the checks fit alone under the token ceiling.
C28_RetryAdmitted ==
    (pc[1] = "backoff") ~> (last.op = "check" /\ last.outcome = "allow")

\* C29: in the in-memory backend a request recorded at time t is part of
\* the minute request count that a check of the same identifier evaluates
\* at any time in [t, t + 60); here the check is the very next call, made
\* at time t itself, so the count it evaluates is at least 1, also when the
\* record came after its window had become stale.
C29_Step ==
    (/\ last.op = "record"
     /\ last.id = "u1"
     /\ last'.op = "check"
     /\ last'.id = "u1"
     /\ last'.outcome # "concurrent") => MinuteOf(MemNext, "u1").count >= 1
C29_RecordCounted == [][C29_Step]_vars

\* C30: with per_user set and the in-memory backend, the outcome of every
\* check of an identifier is the same in two runs that agree on the calls of
\* that identifier (times and arguments) and differ only in the calls made
\* for other identifiers.
C30_Step ==
    (last'.op = "check" /\ last'.id = "u2") =>
        last'.outcome = check_limit_memory(solo, "u2", args'.tokens, clock, clock).outcome
C30_Isolation == [][C30_Step]_vars

\* C31: with the Redis backend, whenever no call is in progress the stored
\* concurrency counter of an identifier is at least the number of slots
\* acquired for it and not yet released, under every interleaving of the
\* commands of incr_concurrent and decr_concurrent of different callers.
C31_Held == Cardinality({t \in Tasks : pc[t] = "running"})
C31_NoIncrementLost ==
    (\A t \in Tasks : pc[t] # "releasing")
        => StoreGet(redis_store, make_key("u1", concurrent_window)) >= C31_Held

\* C32: the Redis backend tries to connect at most once: after a failed
\* first attempt, and after close(), every later check, record, acquire and
\* release gets 0 from the backend without a command reaching the server,
\* and the backend is never connected again, also when the server answers.
C32_StoreCalls == {"check", "record", "acquire", "release"}
C32_Off(b) == ~b.client
C32_Step ==
    /\ (last.op = "close" \/ (backend.initialized /\ C32_Off(backend)))
          => /\ C32_Off(backend')
             /\ last'.op \in C32_StoreCalls
                   => (last'.failed /\ redis_store' = redis_store)
    /\ backend.initialized => backend'.initialized
C32_ConnectsOnce == [][C32_Step]_vars
\* the part of C32 about a backend whose attempt was made: once it is
\* initialized without a client it stays so and no command reaches the server
C32_OffForGood ==
    [][(backend.initialized /\ C32_Off(backend))
          => /\ backend' = backend
             /\ last'.op \in C32_StoreCalls
                   => (last'.failed /\ redis_store' = redis_store)]_vars

\* C33: the used values that get_usage reports for a caller (requests per
\* minute, requests per hour, tokens per minute, concurrent) are the
\* counters that the next check of the same caller compares with its
\* limits, in per-caller and in global scope; here the check is the call
\* that follows the report.
C33_Step ==
    (/\ last.op = "usage"
     /\ last.id = "u1"
     /\ last'.op = "check"
     /\ last'.id = "u1")
        => /\ last.usage.concurrent.used = ConcurrentOf(Mem, "u1")
           /\ last'.outcome # "concurrent"
                 => last.usage.requests_minute.used = MinuteOf(MemNext, "u1").count
           /\ last'.outcome \in {"allow", "tokens_per_minute"}
                 => /\ last.usage.requests_hour.used = HourOf(MemNext, "u1").count
                    /\ args'.tokens > 0
                          => last.usage.tokens_minute.used = MinuteOf(MemNext, "u1").tokens
C33_UsageIsWhatCheckReads == [][C33_Step]_vars

\* C34: with the limiter disabled, check returns allowed and record,
\* acquire_slot and release_slot do nothing: no window state and no
\* concurrency counter changes, local or on the server, the backend makes
\* no attempt to connect, and no call is rejected for a missing user_id,
\* also with require_user_id set.
C34_Step ==
    (~config.enabled /\ last'.op \in {"check", "record", "acquire", "release"})
        => /\ last'.outcome = "allow"
           /\ ~last'.failed
           /\ UNCHANGED <<memvars, backend, redis_store, pending>>
C34_DisabledDoesNothing == [][C34_Step]_vars
C34_Witness ==
    /\ ~config.enabled
    /\ config.require_user_id
    /\ config.use_redis
    /\ last.op = "release"
    /\ last.outcome = "allow"
    /\ args.user_id = NoUser
    /\ ~backend.initialized
    /\ clock > 0

\* C35: the rate-limit middleware goes through check, then the wrapped tool
\* call, then record: with a limiter that admits the tool's identifier the
\* check returns and the wrapped call is made; the wrapped call is made
\* only after a check that returned, the request is recorded only after the
\* wrapped call returned, and a check that raises ends the invocation with
\* neither the wrapped call nor the record.
C35_Admits == check_limit_memory(Mem, MwIdentifier, 0, clock, clock).outcome = "allow"
C35_Step ==
    /\ last'.op = "mw_call" => \E t \in Tasks : pc[t] = "checked" /\ pc'[t] # "checked"
    /\ last'.op = "mw_record" => \E t \in Tasks : pc[t] = "called" /\ pc'[t] # "called"
    /\ (last'.op = "mw_check" /\ last'.outcome # "allow")
          => \E t \in Tasks : pc[t] = "idle" /\ pc'[t] = "raised"
    /\ (pc[1] = "idle" /\ pc'[1] # "idle" /\ C35_Admits) => pc'[1] = "checked"
C35_OrderOnly ==
    [][/\ last'.op = "mw_call" => \E t \in Tasks : pc[t] = "checked" /\ pc'[t] # "checked"
       /\ last'.op = "mw_record" => \E t \in Tasks : pc[t] = "called" /\ pc'[t] # "called"
       /\ (last'.op = "mw_check" /\ last'.outcome # "allow")
             => \E t \in Tasks : pc[t] = "idle" /\ pc'[t] = "raised"]_vars

====
